---- MODULE Spec2Model ----
(***************************************************************************)
(* A model of the textbook segmentation and chunking pipeline:             *)
(*   DocumentProcessor          (src/src/sgk_rag/core/document_processor.py)          *)
(*   EnhancedDocumentProcessor  (src/src/sgk_rag/core/document_processor_enhanced.py) *)
(*                                                                         *)
(* TEXT.  A text is a sequence of atoms.  An atom is a run of characters   *)
(* that the regular expressions of the code treat as a unit:               *)
(*   k  the kind of the atom                                               *)
(*   n  its length in characters                                           *)
(*   v  the integer it spells (digit runs only)                            *)
(*   x  the upper-case letter that directly follows the digits ("" if none)*)
(* Character offsets, lengths, slices and strip are computed on the        *)
(* character counts, so the thresholds of the code keep their values.      *)
(* A letter that directly follows digits belongs to the digits' atom, so   *)
(* no atom that starts with a letter directly follows a "num" with x = "". *)
(*                                                                         *)
(* Kinds:                                                                  *)
(*   "BAI_U" "BAI_M" "BAI_L"  the lesson keyword in upper / mixed / lower  *)
(*                            case, as the patterns spell it               *)
(*   "CHU_U" "CHU_M"          the chapter keyword in upper / mixed case    *)
(*   "TRANG"                  the page keyword "Trang"                     *)
(*   "TAP"                    the word "TẬP" of the exercises heading      *)
(*   "num"                    digits, with an optional variant letter      *)
(*   "dot" "colon" "comma" "star" "lp" "rp"   . : , * ( )                  *)
(*   "fence"                  the code fence ```                           *)
(*   "sp" "nl"                one space, one newline                       *)
(*   "W"  a word of letters whose first letter is upper case               *)
(*   "w"  a word of letters whose first letter is lower case               *)
(*   "D"  a run of non-letter characters that cost several tokens each     *)
(***************************************************************************)
EXTENDS Integers, Sequences, FiniteSets, TLC

Atom(k, n) == [k |-> k, n |-> n, v |-> 0, x |-> ""]
Num(v, x) == [k |-> "num", n |-> IF x = "" THEN 1 ELSE 2, v |-> v, x |-> x]

SP == Atom("sp", 1)
NL == Atom("nl", 1)
DOT == Atom("dot", 1)

Min(a, b) == IF a < b THEN a ELSE b
Max(a, b) == IF a > b THEN a ELSE b

(* The least element of a non-empty set of integers, and the elements of a
   set of integers in increasing order. *)
Least(S) == CHOOSE x \in S : \A y \in S : x <= y
Greatest(S) == CHOOSE x \in S : \A y \in S : x >= y
(* The first of the indices in hits at or after i; 0 if none. *)
NextHit(hits, i) == IF {j \in hits : j >= i} = {} THEN 0 ELSE Least({j \in hits : j >= i})
Ascending(S) ==
    [q \in 1..Cardinality(S) |->
        CHOOSE x \in S : Cardinality({y \in S : y < x}) = q - 1]

(* The sequences of a sequence of sequences, joined in order (by halves). *)
RECURSIVE ConcatRange(_, _, _)
ConcatRange(pieces, lo, hi) ==
    IF lo > hi THEN <<>>
    ELSE IF lo = hi THEN pieces[lo]
    ELSE ConcatRange(pieces, lo, (lo + hi) \div 2)
         \o ConcatRange(pieces, (lo + hi) \div 2 + 1, hi)
Concat(pieces) == ConcatRange(pieces, 1, Len(pieces))

(* The number of characters of the atoms lo..hi of t (by halves). *)
RECURSIVE CharsOf(_, _, _)
CharsOf(t, lo, hi) ==
    IF lo > hi THEN 0
    ELSE IF lo = hi THEN t[lo].n
    ELSE CharsOf(t, lo, (lo + hi) \div 2) + CharsOf(t, (lo + hi) \div 2 + 1, hi)

(* len(text) *)
TextLen(t) == CharsOf(t, 1, Len(t))

(* The character offset at which atom i of t starts (i in 1..Len(t)+1). *)
Offset(t, i) == CharsOf(t, 1, i - 1)

IsWs(a) == a.k \in {"sp", "nl"}
IsNl(a) == a.k = "nl"

(* A piece of an atom cut by a character offset: it keeps the atom's kind of
   characters (letters, whitespace, costly characters) and loses its role. *)
Frag(a, m) ==
    IF a.k \in {"D", "sp", "nl", "fence"} THEN Atom(a.k, m) ELSE Atom("w", m)

(* text[a:b] for 0 <= a, b: the characters at offsets a .. b-1. *)
SliceOfAtom(t, i, a, b) ==
    LET off == Offset(t, i)
        e   == off + t[i].n
        lo  == Max(a, off)
        hi  == Min(b, e)
    IN  IF lo >= hi THEN <<>>
        ELSE IF lo = off /\ hi = e THEN <<t[i]>>
        ELSE <<Frag(t[i], hi - lo)>>
Slice(t, a, b) == Concat([i \in 1..Len(t) |-> SliceOfAtom(t, i, a, b)])

(* str.strip() *)
RECURSIVE LStrip(_)
LStrip(t) == IF t # <<>> /\ IsWs(t[1]) THEN LStrip(Tail(t)) ELSE t
RECURSIVE RStrip(_)
RStrip(t) ==
    IF t # <<>> /\ IsWs(t[Len(t)]) THEN RStrip(SubSeq(t, 1, Len(t) - 1)) ELSE t
Strip(t) == RStrip(LStrip(t))

(* The number of leading whitespace characters strip() removes. *)
RECURSIVE LeadWs(_)
LeadWs(t) == IF t # <<>> /\ IsWs(t[1]) THEN t[1].n + LeadWs(Tail(t)) ELSE 0

(***************************************************************************)
(* Character classes of the patterns.                                      *)
(***************************************************************************)
(* [A-ZÀÁÂÃÈÉÊÌÍÒÓÔÕÙÚÝ] as the first character of the atom, case-sensitive *)
StartsUpper(a) == a.k \in {"W", "BAI_U", "BAI_M", "CHU_U", "CHU_M", "TRANG", "TAP"}
(* the same class under re.IGNORECASE *)
StartsLetter(a) == StartsUpper(a) \/ a.k \in {"w", "BAI_L"}
(* (?:BÀI|...) under re.IGNORECASE, and case-sensitive *)
IsBaiAnyCase(a) == a.k \in {"BAI_U", "BAI_M", "BAI_L"}
IsBaiUpper(a) == a.k = "BAI_U"
IsBaiMixed(a) == a.k = "BAI_M"
IsChuAnyCase(a) == a.k \in {"CHU_U", "CHU_M"}

(* ^ and $ under re.MULTILINE, at the boundary before atom i *)
AtLineStart(t, i) == i = 1 \/ (i - 1 <= Len(t) /\ IsNl(t[i - 1]))
AtLineEnd(t, i) == i > Len(t) \/ IsNl(t[i])

(* The index after the longest run, from i, of atoms whose kind is in ks. *)
SkipKinds(t, i, ks) ==
    IF i > Len(t) THEN i
    ELSE Least({j \in i..Len(t) + 1 : j > Len(t) \/ t[j].k \notin ks})

(* The index of the first atom at or after i whose kind is in ks; Len(t)+1 if none. *)
FindKind(t, i, ks) ==
    IF i > Len(t) THEN i
    ELSE Least({j \in i..Len(t) + 1 : j > Len(t) \/ t[j].k \in ks})

HasKind(t, ks) == \E j \in 1..Len(t) : t[j].k \in ks

(***************************************************************************)
(* _find_lesson_markers: the eight heading patterns.                       *)
(* A match is [ok, start, end, number, title, full_match, pattern]: start  *)
(* is the index of its first atom, end the index after its last atom.      *)
(***************************************************************************)
NoMatch == [ok |-> FALSE]
Match(t, i, e, j, s, te, name) ==
    [ok |-> TRUE, start |-> i, end |-> e, number |-> t[j].v,
     title |-> IF s = 0 THEN <<>> ELSE Strip(SubSeq(t, s, te - 1)),
     full_match |-> SubSeq(t, i, e - 1), pattern |-> name]

WS == {"sp", "nl"}
(* keyword \s+ (?P<num>\d+[A-Z]?) from the keyword at i: the index of the digits, or 0 *)
HeadNum(t, i) ==
    IF \E j \in {SkipKinds(t, i + 1, WS)} : j > i + 1 /\ j <= Len(t) /\ t[j].k = "num"
    THEN SkipKinds(t, i + 1, WS) ELSE 0

(* ...[\.\s]+(?P<title>[A-Z..][^<stops>\n\r]*?)(?=\n|$) after the digits at j:
   keyword at i, title from the first letter to the end of the line, none of
   the characters in stops inside it. *)
DotTitle(t, i, j, stops, ignorecase, name) ==
    LET s == SkipKinds(t, j + 1, {"dot", "sp", "nl"})
        e == FindKind(t, s, {"nl"})
    IN  IF s > j + 1 /\ s <= Len(t)
           /\ (IF ignorecase THEN StartsLetter(t[s]) ELSE StartsUpper(t[s]))
           /\ ~HasKind(SubSeq(t, s, e - 1), stops)
        THEN Match(t, i, e, j, s, e, name)
        ELSE NoMatch

(* Pattern 1: (?:BÀI|..)\s+num[\.\s]+TITLE, re.IGNORECASE *)
Pattern1(t, i) ==
    IF ~IsBaiAnyCase(t[i]) \/ HeadNum(t, i) = 0 THEN NoMatch
    ELSE DotTitle(t, i, HeadNum(t, i), {"dot"}, TRUE, "uppercase_dot")

(* Pattern 2: (?:BÀI|..)\s+num:\s*TITLE with no colon in it, re.IGNORECASE *)
Pattern2(t, i) ==
    IF ~IsBaiAnyCase(t[i]) \/ HeadNum(t, i) = 0 THEN NoMatch
    ELSE LET j == HeadNum(t, i)
             s == SkipKinds(t, j + 2, WS)
             e == FindKind(t, s, {"nl"})
         IN  IF j + 1 <= Len(t) /\ t[j + 1].k = "colon"
                /\ s <= Len(t) /\ StartsLetter(t[s])
                /\ ~HasKind(SubSeq(t, s, e - 1), {"colon"})
             THEN Match(t, i, e, j, s, e, "uppercase_colon")
             ELSE NoMatch

(* Pattern 3: Bài\s+num[\.\s]+Title, case-sensitive *)
Pattern3(t, i) ==
    IF ~IsBaiMixed(t[i]) \/ HeadNum(t, i) = 0 THEN NoMatch
    ELSE DotTitle(t, i, HeadNum(t, i), {"dot"}, FALSE, "mixed_case_dot")

(* Pattern 4: \*\s*Bài\s+num[\.\s]+Title(?:,|\n|$): the match starts at the
   bullet and takes the comma or newline that ends the title. *)
Pattern4(t, i) ==
    LET b == SkipKinds(t, i + 1, WS)
    IN  IF t[i].k # "star" \/ b > Len(t) THEN NoMatch
        ELSE IF ~IsBaiMixed(t[b]) \/ HeadNum(t, b) = 0 THEN NoMatch
        ELSE LET j  == HeadNum(t, b)
                 s  == SkipKinds(t, j + 1, {"dot", "sp", "nl"})
                 te == FindKind(t, s, {"comma", "nl"})
             IN  IF s > j + 1 /\ s <= Len(t) /\ StartsUpper(t[s])
                 THEN Match(t, i, Min(te + 1, Len(t) + 1), j, s, te, "bullet_point")
                 ELSE NoMatch

(* Pattern 5: ^(?:BÀI|..)\s+num(?:\s*$|\s+TITLE)?$, re.MULTILINE, case-sensitive.
   The first alternative holds when the whitespace after the digits reaches a
   newline or the end of the text; the title is then absent. *)
Pattern5(t, i) ==
    IF ~IsBaiUpper(t[i]) \/ ~AtLineStart(t, i) \/ HeadNum(t, i) = 0 THEN NoMatch
    ELSE LET j  == HeadNum(t, i)
             sp == SkipKinds(t, j + 1, {"sp"})
             s  == SkipKinds(t, j + 1, WS)
             e  == FindKind(t, s, {"nl"})
         IN  IF AtLineEnd(t, sp) THEN Match(t, i, sp, j, 0, 0, "standalone_uppercase")
             ELSE IF s > j + 1 /\ StartsUpper(t[s])
             THEN Match(t, i, e, j, s, e, "standalone_uppercase")
             ELSE NoMatch

(* Pattern 6: ^(?:BÀI|..)\s+num[\.\s]+TITLE, re.MULTILINE, case-sensitive *)
Pattern6(t, i) ==
    IF ~IsBaiUpper(t[i]) \/ ~AtLineStart(t, i) \/ HeadNum(t, i) = 0 THEN NoMatch
    ELSE DotTitle(t, i, HeadNum(t, i), {"dot"}, FALSE, "plain_text_dot")

(* Pattern 7: Bài\s+num[\.\s]+title\s*\((?:Trang|trang)\s+\d+\), case-sensitive:
   the table-of-contents form.  The title is any text without "(" or a newline;
   whitespace, newlines included, may stand between it and the "(". *)
Pattern7(t, i) ==
    IF ~IsBaiMixed(t[i]) \/ HeadNum(t, i) = 0 THEN NoMatch
    ELSE LET j  == HeadNum(t, i)
             s  == SkipKinds(t, j + 1, {"dot", "sp", "nl"})
             te == FindKind(t, s, {"lp", "nl"})
             lp == SkipKinds(t, te, WS)
             d  == SkipKinds(t, lp + 2, WS)
         IN  IF s > j + 1 /\ lp <= Len(t) /\ t[lp].k = "lp"
                /\ lp + 1 <= Len(t) /\ t[lp + 1].k = "TRANG"
                /\ d > lp + 2 /\ d + 1 <= Len(t)
                /\ t[d].k = "num" /\ t[d].x = "" /\ t[d + 1].k = "rp"
             THEN Match(t, i, d + 2, j, s, te, "table_of_contents")
             ELSE NoMatch

(* Pattern 8: ^(?:BÀI|..)\s+num\s+TITLE to the end of the line, re.MULTILINE,
   case-sensitive; a match that holds one of . : - is skipped by the loop. *)
Pattern8(t, i) ==
    IF ~IsBaiUpper(t[i]) \/ ~AtLineStart(t, i) \/ HeadNum(t, i) = 0 THEN NoMatch
    ELSE LET j == HeadNum(t, i)
             s == SkipKinds(t, j + 1, WS)
             e == FindKind(t, s, {"nl"})
         IN  IF s > j + 1 /\ s <= Len(t) /\ StartsUpper(t[s])
             THEN Match(t, i, e, j, s, e, "no_punctuation")
             ELSE NoMatch

PatternAt(p, t, i) ==
    CASE p = 1 -> Pattern1(t, i) [] p = 2 -> Pattern2(t, i)
      [] p = 3 -> Pattern3(t, i) [] p = 4 -> Pattern4(t, i)
      [] p = 5 -> Pattern5(t, i) [] p = 6 -> Pattern6(t, i)
      [] p = 7 -> Pattern7(t, i) [] p = 8 -> Pattern8(t, i)

(* The marker dict the loop appends for a match. *)
MarkerOf(t, m) ==
    [type |-> "lesson", position |-> Offset(t, m.start), number |-> m.number,
     title |-> m.title, full_match |-> m.full_match, pattern |-> m.pattern]

(* re.finditer(pattern_p, text): the non-overlapping matches, left to right.
   at[j] is the match of the pattern at atom j; the search goes on from the
   end of each match. *)
RECURSIVE FindIter(_, _, _, _)
FindIter(p, t, at, i) ==
    LET h == NextHit({j \in 1..Len(t) : at[j].ok}, i)
    IN  IF h = 0 THEN <<>>
        ELSE (IF p = 8 /\ HasKind(at[h].full_match, {"dot", "colon"}) THEN <<>>
              ELSE <<MarkerOf(t, at[h])>>)
             \o FindIter(p, t, at, Max(at[h].end, at[h].start + 1))

(* markers, as the eight loops of _find_lesson_markers fill it *)
CandidatesOf(p, t) == FindIter(p, t, [j \in 1..Len(t) |-> PatternAt(p, t, j)], 1)
Candidates(t) == Concat([p \in 1..8 |-> CandidatesOf(p, t)])

(***************************************************************************)
(* _find_lesson_markers: deduplication and ordering.                       *)
(***************************************************************************)
(* variant: the letter of the first digits-then-capital in full_match *)
RECURSIVE Variant(_)
Variant(full) ==
    IF full = <<>> THEN ""
    ELSE IF full[1].k = "num" /\ full[1].x # "" THEN full[1].x
    ELSE Variant(Tail(full))

(* key = (marker['number'], variant) *)
KeyOf(marker) == <<marker.number, Variant(marker.full_match)>>

(* A preference that does not look at the table-of-contents form. *)
ReplacesWhateverForm(marker, existing) ==
    IF TextLen(marker.title) > TextLen(existing.title) THEN TRUE
    ELSE /\ TextLen(marker.title) = TextLen(existing.title)
         /\ marker.pattern \in {"mixed_case_dot", "bullet_point"}
         /\ existing.pattern \in {"uppercase_dot", "uppercase_colon", "plain_text_dot"}

(* A preference that does not look at the length of the titles. *)
ReplacesWhateverLength(marker, existing) ==
    IF marker.pattern = "table_of_contents" THEN FALSE
    ELSE existing.pattern = "table_of_contents"

(* A preference without the tie-break between dialects. *)
ReplacesLongerOnly(marker, existing) ==
    IF marker.pattern = "table_of_contents" THEN FALSE
    ELSE IF existing.pattern = "table_of_contents" THEN TRUE
    ELSE TextLen(marker.title) > TextLen(existing.title)

(* Whether marker takes the place of existing, the entry unique_markers
   holds for its key. *)
Replaces(marker, existing) ==
    IF marker.pattern = "table_of_contents" THEN FALSE
    ELSE IF existing.pattern = "table_of_contents" THEN TRUE
    ELSE IF TextLen(marker.title) > TextLen(existing.title) THEN TRUE
    ELSE /\ TextLen(marker.title) = TextLen(existing.title)
         /\ marker.pattern \in {"mixed_case_dot", "bullet_point"}
         /\ existing.pattern \in {"uppercase_dot", "uppercase_colon", "plain_text_dot"}

(* A loop that keeps every marker it is given. *)
DedupStepKeepAll(unique, marker) == Append(unique, marker)

(* unique_markers is a dict: a sequence of markers, one per key, in the order
   in which the keys were first inserted.  One step of the loop: *)
DedupStep(unique, marker) ==
    IF \E q \in 1..Len(unique) : KeyOf(unique[q]) = KeyOf(marker)
    THEN [q \in 1..Len(unique) |->
            IF KeyOf(unique[q]) = KeyOf(marker) /\ Replaces(marker, unique[q])
            THEN marker ELSE unique[q]]
    ELSE Append(unique, marker)

RECURSIVE DedupFrom(_, _, _)
DedupFrom(markers, i, unique) ==
    IF i > Len(markers) THEN unique
    ELSE DedupFrom(markers, i + 1, DedupStep(unique, markers[i]))
Dedup(markers) == DedupFrom(markers, 1, <<>>)

(* sorted(seq, key=lambda x: x['position']): a stable sort *)
RECURSIVE InsertByPosition(_, _)
InsertByPosition(sorted, m) ==
    IF sorted = <<>> THEN <<m>>
    ELSE IF sorted[Len(sorted)].position <= m.position THEN Append(sorted, m)
    ELSE Append(InsertByPosition(SubSeq(sorted, 1, Len(sorted) - 1), m),
                sorted[Len(sorted)])
RECURSIVE SortFrom(_, _, _)
SortFrom(seq, i, acc) ==
    IF i > Len(seq) THEN acc ELSE SortFrom(seq, i + 1, InsertByPosition(acc, seq[i]))
SortByPosition(seq) == SortFrom(seq, 1, <<>>)

FindLessonMarkers(t) == SortByPosition(Dedup(Candidates(t)))

(***************************************************************************)
(* Text clean-up before segmentation.                                      *)
(* The rules whose literals lie outside the alphabet of atoms (the intro   *)
(* and table-of-contents banners, rules of "=", "-" and "_", "Page",       *)
(* "--- PAGE n ---", the publisher headers) and the rules that need five   *)
(* whitespace characters in a row leave every text of the model unchanged  *)
(* and have no operator here.                                              *)
(***************************************************************************)
(* \s*$ under re.MULTILINE from index i: the index after the match, 0 if none.
   The greedy run gives back whitespace until it stands at the end of the
   text or before a newline. *)
LastNlBefore(t, i, r) ==
    IF {j \in i..r - 1 : IsNl(t[j])} = {} THEN 0
    ELSE Greatest({j \in i..r - 1 : IsNl(t[j])})
WsDollar(t, i) ==
    LET r == SkipKinds(t, i, WS)
    IN  IF r > Len(t) THEN r
        ELSE IF LastNlBefore(t, i, r) = 0 THEN 0 ELSE LastNlBefore(t, i, r)

(* ,\s*Trang\s+\d+\s*$ from the comma at c: the index after the match, 0 if none *)
PageRef(t, g) ==
    LET d == SkipKinds(t, g + 1, WS)
    IN  IF g <= Len(t) /\ t[g].k = "TRANG" /\ d > g + 1 /\ d <= Len(t)
           /\ t[d].k = "num" /\ t[d].x = ""
        THEN WsDollar(t, d + 1) ELSE 0
CommaPage(t, c) == PageRef(t, SkipKinds(t, c + 1, WS))

(* .+?,\s*Trang\s+\d+\s*$ from index b: the first comma on the line, after at
   least one character, from which the rest matches. *)
FirstCommaPage(t, commas) ==
    IF commas = {} THEN 0 ELSE CommaPage(t, Least(commas))
LazyToCommaPage(t, b, c) ==
    FirstCommaPage(t, {d \in c..FindKind(t, c, {"nl"}) - 1 :
                          d > b /\ t[d].k = "comma" /\ CommaPage(t, d) # 0})

(* ^(?:Chủ đề|Bài)\s+\d+[A-Z]?<seps>.+?,\s*Trang\s+\d+\s*$, re.MULTILINE |
   re.IGNORECASE: a table-of-contents line.  dotThenWs: the separator is \.\s+
   (DocumentProcessor); otherwise [\.\s:]+ (EnhancedDocumentProcessor).
   The greedy separator run ends at b; when nothing matches from there it
   gives its last character back to .+? and the comma may stand at b.
   The index after the match, 0 if none. *)
OrElse(a, b) == IF a # 0 THEN a ELSE b
TocLineFrom(t, first, b) ==
    IF b <= first THEN 0
    ELSE OrElse(LazyToCommaPage(t, b, b),
                IF b > first + 1 /\ ~IsNl(t[b - 1]) /\ b <= Len(t) /\ t[b].k = "comma"
                THEN CommaPage(t, b) ELSE 0)
TocLineEnd(t, i, dotThenWs) ==
    IF ~AtLineStart(t, i) \/ ~(IsBaiAnyCase(t[i]) \/ IsChuAnyCase(t[i]))
       \/ HeadNum(t, i) = 0 THEN 0
    ELSE IF dotThenWs
    THEN (IF HeadNum(t, i) + 1 <= Len(t) /\ t[HeadNum(t, i) + 1].k = "dot"
          THEN TocLineFrom(t, HeadNum(t, i) + 2, SkipKinds(t, HeadNum(t, i) + 2, WS))
          ELSE 0)
    ELSE TocLineFrom(t, HeadNum(t, i) + 1,
                     SkipKinds(t, HeadNum(t, i) + 1, {"dot", "sp", "nl", "colon"}))

(* ^\s*Trang\s*$, re.MULTILINE | re.IGNORECASE *)
PageWordLineEnd(t, i) ==
    LET g == SkipKinds(t, i, WS)
    IN  IF AtLineStart(t, i) /\ g <= Len(t) /\ t[g].k = "TRANG"
        THEN WsDollar(t, g + 1) ELSE 0

(* (?:TRANG|Trang|Page)\s+\d+, re.IGNORECASE: the index of the digits, 0 if none *)
PageNumDigits(t, i) ==
    LET d == SkipKinds(t, i + 1, WS)
    IN  IF t[i].k = "TRANG" /\ d > i + 1 /\ d <= Len(t) /\ t[d].k = "num"
        THEN d ELSE 0

(* re.sub(rule, "", text): ends[j] is the index after the match of the rule
   at atom j, 0 if none; left[j] is what the match at j leaves of its last
   atom. *)
RECURSIVE SubFrom(_, _, _, _)
SubFrom(t, ends, left, i) ==
    LET h == NextHit({j \in 1..Len(t) : ends[j] # 0}, i)
    IN  IF h = 0 THEN SubSeq(t, i, Len(t))
        ELSE SubSeq(t, i, h - 1) \o left[h] \o SubFrom(t, ends, left, ends[h])
Sub(t, ends, left) == SubFrom(t, ends, left, 1)
Nothing(t) == [j \in 1..Len(t) |-> <<>>]

(* the table-of-contents lines, the lines that hold the page word only *)
RemoveTocLines(t, dotThenWs) ==
    Sub(t, [j \in 1..Len(t) |-> TocLineEnd(t, j, dotThenWs)], Nothing(t))
RemovePageWords(t) == Sub(t, [j \in 1..Len(t) |-> PageWordLineEnd(t, j)], Nothing(t))
(* the page numbers; the digits are removed without the letter that may
   follow them *)
RemovePageNumbers(t) ==
    Sub(t, [j \in 1..Len(t) |-> IF PageNumDigits(t, j) = 0 THEN 0
                                 ELSE PageNumDigits(t, j) + 1],
        [j \in 1..Len(t) |-> IF PageNumDigits(t, j) # 0 /\ t[PageNumDigits(t, j)].x # ""
                             THEN <<Atom("W", 1)>> ELSE <<>>])

(* re.sub(r"\n{3,}", "\n\n", text) and re.sub(r" {2,}", " ", text): of a run
   of the kind, the first keep atoms stay. *)
CollapseRuns(t, kind, keep) ==
    LET stays(i) == \E j \in (i - keep)..i : j < 1 \/ t[j].k # kind
    IN  Concat([i \in 1..Len(t) |-> IF stays(i) THEN <<t[i]>> ELSE <<>>])
CollapseNewlines(t) == CollapseRuns(t, "nl", 2)
CollapseSpaces(t) == CollapseRuns(t, "sp", 1)

(* DocumentProcessor._remove_table_of_contents *)
RemoveTableOfContents(t) ==
    CollapseNewlines(RemovePageWords(RemoveTocLines(t, TRUE)))

(* DocumentProcessor._preprocess_text *)
PreprocessText(t) == Strip(CollapseSpaces(CollapseNewlines(RemovePageNumbers(t))))

(* EnhancedDocumentProcessor._preprocess_text: the lines of 1 to 3 characters
   other than whitespace are dropped. *)
RECURSIVE SplitLines(_, _)
SplitLines(t, i) ==
    LET e == FindKind(t, i, {"nl"})
    IN  IF e > Len(t) THEN <<SubSeq(t, i, Len(t))>>
        ELSE <<SubSeq(t, i, e - 1)>> \o SplitLines(t, e + 1)
RECURSIVE JoinLines(_)
JoinLines(ls) ==
    IF ls = <<>> THEN <<>>
    ELSE IF Len(ls) = 1 THEN ls[1]
    ELSE ls[1] \o <<NL>> \o JoinLines(Tail(ls))
KeepLine(line) == TextLen(Strip(line)) > 3 \/ Strip(line) = <<>>
DropShortLines(t) == JoinLines(SelectSeq(SplitLines(t, 1), KeepLine))
EnhancedPreprocessText(t) ==
    Strip(DropShortLines(CollapseSpaces(CollapseNewlines(RemoveTocLines(t, FALSE)))))

(***************************************************************************)
(* _build_chapter_map of both processors.                                  *)
(***************************************************************************)
(* CHỦ ĐỀ\s+(\d+)[\.\s:：-]+([A-Z..][^\n\r]+), re.IGNORECASE, at atom i: the
   index after the match (the end of the line), 0 if none.  The digits carry
   no letter; the title has at least two characters. *)
ChapterTitleStart(t, i) == SkipKinds(t, HeadNum(t, i) + 1, {"dot", "sp", "nl", "colon"})
ChapterEnd(t, i) ==
    IF ~IsChuAnyCase(t[i]) \/ HeadNum(t, i) = 0 THEN 0
    ELSE LET j == HeadNum(t, i)
             s == ChapterTitleStart(t, i)
             e == FindKind(t, s, {"nl"})
         IN  IF t[j].x = "" /\ s > j + 1 /\ s <= Len(t) /\ StartsLetter(t[s])
                /\ TextLen(SubSeq(t, s, e - 1)) >= 2
             THEN e ELSE 0

(* re.sub(r'\s+\d+\s*$', '', title): a trailing page number is cut off *)
CutTrailingNumber(title) ==
    LET m == Len(title)
    IN  IF m >= 2 /\ title[m].k = "num" /\ title[m].x = "" /\ IsWs(title[m - 1])
        THEN RStrip(SubSeq(title, 1, m - 1)) ELSE title

(* chapter_title: DocumentProcessor cuts a trailing number and collapses the
   whitespace; EnhancedDocumentProcessor only strips. *)
ChapterTitle(t, i, enhanced) ==
    IF enhanced THEN Strip(SubSeq(t, ChapterTitleStart(t, i), ChapterEnd(t, i) - 1))
    ELSE Strip(CollapseSpaces(CutTrailingNumber(
             Strip(SubSeq(t, ChapterTitleStart(t, i), ChapterEnd(t, i) - 1)))))

(* BÀI\s+(\d+)[A-Z]?[\.\s:：-], re.IGNORECASE, at atom i: the index after the
   match, 0 if none. *)
LessonItemEnd(t, i) ==
    IF ~IsBaiAnyCase(t[i]) \/ HeadNum(t, i) = 0 THEN 0
    ELSE LET j == HeadNum(t, i)
         IN  IF j + 1 <= Len(t) /\ t[j + 1].k \in {"dot", "sp", "nl", "colon"}
             THEN j + 2 ELSE 0

(* re.finditer of one chapter pattern / one lesson pattern, from atom i *)
RECURSIVE ChapterItemsFrom(_, _, _, _)
ChapterItemsFrom(t, hits, i, enhanced) ==
    LET h == NextHit(hits, i)
    IN  IF h = 0 THEN <<>>
        ELSE <<[type |-> "CHAPTER", position |-> Offset(t, h),
                number |-> t[HeadNum(t, h)].v, title |-> ChapterTitle(t, h, enhanced)]>>
             \o ChapterItemsFrom(t, hits, ChapterEnd(t, h), enhanced)
ChapterItems(t, enhanced) ==
    ChapterItemsFrom(t, {j \in 1..Len(t) : ChapterEnd(t, j) # 0}, 1, enhanced)
RECURSIVE LessonItemsFrom(_, _, _)
LessonItemsFrom(t, hits, i) ==
    LET h == NextHit(hits, i)
    IN  IF h = 0 THEN <<>>
        ELSE <<[type |-> "LESSON", position |-> Offset(t, h),
                number |-> t[HeadNum(t, h)].v, title |-> <<>>]>>
             \o LessonItemsFrom(t, hits, LessonItemEnd(t, h))
LessonItems(t) == LessonItemsFrom(t, {j \in 1..Len(t) : LessonItemEnd(t, j) # 0}, 1)

(* items, sorted by position.  Every pattern of a list is applied with
   re.IGNORECASE, so the upper-case and the mixed-case pattern both report
   each heading: every item is in the list twice. *)
Twice(found) == found \o found
Items(t, enhanced) ==
    SortByPosition(Twice(ChapterItems(t, enhanced)) \o Twice(LessonItems(t)))

(* A scan that starts at the head of the list: the first chapter item of
   the items 1..j. *)
ChapterBeforeFromHead(items, j) ==
    NextHit({q \in 1..j : items[q].type = "CHAPTER"}, 1)

(* for j in range(i - 1, -1, -1): the index of the first chapter item met
   going back from i; 0 if none *)
RECURSIVE ChapterBefore(_, _)
ChapterBefore(items, j) ==
    IF j < 1 THEN 0
    ELSE IF items[j].type = "CHAPTER" THEN j ELSE ChapterBefore(items, j - 1)
(* for j in range(i + 1, len(items)): the first chapter item met going on *)
RECURSIVE ChapterAfter(_, _)
ChapterAfter(items, j) ==
    IF j > Len(items) THEN 0
    ELSE IF items[j].type = "CHAPTER" THEN j ELSE ChapterAfter(items, j + 1)

(* nearest_chapter of the lesson item i; 0 if None.  Only DocumentProcessor
   looks ahead. *)
NearestChapter(items, i, enhanced) ==
    IF ChapterBefore(items, i - 1) # 0 THEN ChapterBefore(items, i - 1)
    ELSE IF enhanced THEN 0 ELSE ChapterAfter(items, i + 1)

(* A map that keeps the entry a key already has. *)
MapPutKeepFirst(map, key, val) ==
    IF key \in DOMAIN map THEN map
    ELSE [n \in DOMAIN map \cup {key} |-> IF n = key THEN val ELSE map[n]]

(* chapter_map: a function from the lesson numbers that got a chapter to
   [chapter_number, chapter_title, at]; at is the position of the chapter
   item the entry was built from (not a field of the code's dict). *)
EmptyMap == [n \in {} |-> 0]
MapPut(map, key, val) ==
    [n \in DOMAIN map \cup {key} |-> IF n = key THEN val ELSE map[n]]
RECURSIVE MapLessons(_, _, _, _)
MapLessons(items, i, enhanced, map) ==
    IF i > Len(items) THEN map
    ELSE IF items[i].type = "LESSON" /\ NearestChapter(items, i, enhanced) # 0
    THEN LET c == items[NearestChapter(items, i, enhanced)]
         IN  MapLessons(items, i + 1, enhanced,
                 MapPut(map, items[i].number,
                        [chapter_number |-> c.number, chapter_title |-> c.title,
                         at |-> c.position]))
    ELSE MapLessons(items, i + 1, enhanced, map)
BuildChapterMap(t, enhanced) == MapLessons(Items(t, enhanced), 1, enhanced, EmptyMap)

(***************************************************************************)
(* Segmentation into lessons.  A lesson is [text, start, end, number]:     *)
(* text is the element of the list the code returns; start and end are the *)
(* offsets start_pos and end_pos it was cut at and number the number of    *)
(* the marker that opened it (0 when no marker did); the code keeps text   *)
(* only.                                                                   *)
(***************************************************************************)
Lesson(text, start, end, number) ==
    [text |-> text, start |-> start, end |-> end, number |-> number]

(* end_pos of marker i *)
EndPos(t, markers, i) ==
    IF i + 1 <= Len(markers) THEN markers[i + 1].position ELSE TextLen(t)
(* text[start_pos:end_pos].strip() of marker i *)
LessonContent(t, markers, i) ==
    Strip(Slice(t, markers[i].position, EndPos(t, markers, i)))

(* re.search(r"^BÀI TẬP\s*$|^BÀI NGHỈ\s*$", content, re.IGNORECASE | re.MULTILINE) *)
IsExerciseSection(c) ==
    \E i \in 1..Len(c) :
        /\ AtLineStart(c, i) /\ IsBaiAnyCase(c[i])
        /\ i + 2 <= Len(c) /\ c[i + 1].k = "sp" /\ c[i + 2].k = "TAP"
        /\ WsDollar(c, i + 3) # 0

(* len(re.findall(r'Bài\s+\d+', content, re.IGNORECASE)) *)
BaiCount(c) == Cardinality({i \in 1..Len(c) : IsBaiAnyCase(c[i]) /\ HeadNum(c, i) # 0})

(* (?=CHỦ ĐỀ|BÀI\s+\d+\s+[A-Z..ĐỨ]) under re.IGNORECASE, at atom i *)
StructuralHeadingAt(c, i) ==
    \/ IsChuAnyCase(c[i])
    \/ /\ IsBaiAnyCase(c[i]) /\ HeadNum(c, i) # 0
       /\ c[HeadNum(c, i)].x = ""
       /\ LET s == SkipKinds(c, HeadNum(c, i) + 1, WS)
          IN  s > HeadNum(c, i) + 1 /\ s <= Len(c) /\ StartsLetter(c[s])

(* re.sub(r'^.*?(?=...)', '', content, flags=re.DOTALL | re.IGNORECASE):
   everything before the first structural heading is removed.  When the
   content starts with a structural heading the match at offset 0 is empty,
   and re.sub then takes the next, non-empty match at offset 0: everything
   before the second structural heading is removed. *)
RemoveBefore(c, headings) ==
    IF NextHit(headings, 1) = 0 THEN c
    ELSE IF NextHit(headings, 1) > 1 THEN SubSeq(c, NextHit(headings, 1), Len(c))
    ELSE IF NextHit(headings, 2) = 0 THEN c
    ELSE SubSeq(c, NextHit(headings, 2), Len(c))
RemoveLeadingRemnant(c) ==
    RemoveBefore(c, {j \in 1..Len(c) : StructuralHeadingAt(c, j)})

(* DocumentProcessor._split_into_lessons: the loop over the markers *)
StrictLesson(c, cleaned, marker, end) ==
    IF /\ TextLen(c) >= 50
       /\ ~IsExerciseSection(c)
       /\ BaiCount(c) <= 3
       /\ TextLen(cleaned) >= 100
    THEN <<Lesson(cleaned, marker.position, end, marker.number)>>
    ELSE <<>>
RECURSIVE StrictFrom(_, _, _)
StrictFrom(t, markers, i) ==
    IF i > Len(markers) THEN <<>>
    ELSE StrictLesson(LessonContent(t, markers, i),
                      Strip(RemoveLeadingRemnant(LessonContent(t, markers, i))),
                      markers[i], EndPos(t, markers, i))
         \o StrictFrom(t, markers, i + 1)
StrictLessons(t, markers) ==
    IF markers = <<>> THEN <<Lesson(t, 0, TextLen(t), 0)>>
    ELSE StrictFrom(t, markers, 1)
SplitIntoLessons(t) == StrictLessons(t, FindLessonMarkers(t))

(* DocumentProcessor._split_into_lessons_fallback *)
RECURSIVE FallbackFrom(_, _, _)
FallbackFrom(t, markers, i) ==
    IF i > Len(markers) THEN <<>>
    ELSE LET c == LessonContent(t, markers, i)
         IN  (IF TextLen(c) >= 10
              THEN <<Lesson(c, markers[i].position, EndPos(t, markers, i),
                            markers[i].number)>>
              ELSE <<>>)
             \o FallbackFrom(t, markers, i + 1)
SplitIntoLessonsFallback(t) == FallbackFrom(t, FindLessonMarkers(t), 1)

(* EnhancedDocumentProcessor._split_into_lessons.
   BÀI\s+(\d+)[A-Z]?[\.\s:：-]+([A-Z..][^\n\r]+), re.IGNORECASE, at atom i: the
   index after the match, 0 if none. *)
EnhancedHeadingEnd(t, i) ==
    IF ~IsBaiAnyCase(t[i]) \/ HeadNum(t, i) = 0 THEN 0
    ELSE LET j == HeadNum(t, i)
             s == SkipKinds(t, j + 1, {"dot", "sp", "nl", "colon"})
             e == FindKind(t, s, {"nl"})
         IN  IF s > j + 1 /\ s <= Len(t) /\ StartsLetter(t[s])
                /\ TextLen(SubSeq(t, s, e - 1)) >= 2
             THEN e ELSE 0
RECURSIVE EnhancedMarkersFrom(_, _, _)
EnhancedMarkersFrom(t, hits, i) ==
    LET h == NextHit(hits, i)
    IN  IF h = 0 THEN <<>>
        ELSE <<[position |-> Offset(t, h), number |-> t[HeadNum(t, h)].v]>>
             \o EnhancedMarkersFrom(t, hits, EnhancedHeadingEnd(t, h))
EnhancedMarkersOnce(t) ==
    EnhancedMarkersFrom(t, {j \in 1..Len(t) : EnhancedHeadingEnd(t, j) # 0}, 1)
(* both patterns of the list are applied with re.IGNORECASE: every heading is
   in markers twice *)
EnhancedMarkers(t) == SortByPosition(Twice(EnhancedMarkersOnce(t)))
RECURSIVE EnhancedFrom(_, _, _)
EnhancedFrom(t, markers, i) ==
    IF i > Len(markers) THEN <<>>
    ELSE LET c == LessonContent(t, markers, i)
         IN  (IF TextLen(c) > 100
              THEN <<Lesson(c, markers[i].position, EndPos(t, markers, i),
                            markers[i].number)>>
              ELSE <<>>)
             \o EnhancedFrom(t, markers, i + 1)
EnhancedLessons(t, markers) ==
    IF markers = <<>> THEN <<Lesson(t, 0, TextLen(t), 0)>>
    ELSE EnhancedFrom(t, markers, 1)
EnhancedSplitIntoLessons(t) == EnhancedLessons(t, EnhancedMarkers(t))

(***************************************************************************)
(* Chunking.                                                               *)
(* _count_tokens: the encoding is taken to cost one token per character,   *)
(* three per character of a "D" atom.                                      *)
(***************************************************************************)
RECURSIVE TokensOf(_, _, _)
TokensOf(t, lo, hi) ==
    IF lo > hi THEN 0
    ELSE IF lo = hi THEN (IF t[lo].k = "D" THEN 3 * t[lo].n ELSE t[lo].n)
    ELSE TokensOf(t, lo, (lo + hi) \div 2) + TokensOf(t, (lo + hi) \div 2 + 1, hi)
CountTokens(t) == TokensOf(t, 1, Len(t))

(* length_function of the splitter: len for "chars", _count_tokens for "tokens" *)
Measure(t, unit) == IF unit = "chars" THEN TextLen(t) ELSE CountTokens(t)

(* Adjacent pieces of letters, of costly characters and of backticks read as
   one run. *)
Coalesce(t) ==
    LET joins(i) == i > 1 /\ t[i].k = t[i - 1].k /\ t[i].k \in {"w", "D", "fence"}
        starts   == Ascending({i \in 1..Len(t) : ~joins(i)})
        last(q)  == IF q < Len(starts) THEN starts[q + 1] - 1 ELSE Len(t)
    IN  [q \in 1..Len(starts) |->
            IF last(q) = starts[q] THEN t[starts[q]]
            ELSE Atom(t[starts[q]].k, CharsOf(t, starts[q], last(q)))]

(* list(text): the characters of a text, one piece each *)
Characters(t) ==
    Concat([i \in 1..Len(t) |->
               IF t[i].n = 1 THEN <<<<t[i]>>>>
               ELSE [q \in 1..t[i].n |-> <<Frag(t[i], 1)>>]])

(* separators=["\n\n", "\n", ". ", "! ", "? ", " ", ""]; "! " and "? " occur
   in no text of the model. *)
Separators == <<"nlnl", "nl", "dotsp", "sp", "">>
SepAt(t, i, sep) ==
    CASE sep = "nlnl"  -> i + 1 <= Len(t) /\ t[i].k = "nl" /\ t[i + 1].k = "nl"
      [] sep = "nl"    -> t[i].k = "nl"
      [] sep = "dotsp" -> i + 1 <= Len(t) /\ t[i].k = "dot" /\ t[i + 1].k = "sp"
      [] sep = "sp"    -> t[i].k = "sp"
      [] OTHER         -> FALSE
Occurs(t, sep) == \E i \in 1..Len(t) : SepAt(t, i, sep)

(* _split_text_with_regex with keep_separator=True: the text is cut before
   every occurrence of the separator; empty pieces are dropped. *)
RECURSIVE PiecesFrom(_, _, _, _, _)
PiecesFrom(t, hits, i, sep, start) ==
    LET h == NextHit(hits, i)
    IN  IF h = 0
        THEN (IF start <= Len(t) THEN <<SubSeq(t, start, Len(t))>> ELSE <<>>)
        ELSE (IF h > start THEN <<SubSeq(t, start, h - 1)>> ELSE <<>>)
             \o PiecesFrom(t, hits, h + (IF sep \in {"nlnl", "dotsp"} THEN 2 ELSE 1), sep, h)
SplitWithSeparator(t, sep) ==
    IF sep = "" THEN Characters(t)
    ELSE PiecesFrom(t, {j \in 1..Len(t) : SepAt(t, j, sep)}, 1, sep, 1)

(* _join_docs: the pieces joined and stripped; nothing when empty *)
JoinDocs(pieces) ==
    IF Strip(Concat(pieces)) = <<>> THEN <<>> ELSE <<Coalesce(Strip(Concat(pieces)))>>

(* the while loop of _merge_splits: pieces leave current_doc from the front
   while the total exceeds the overlap or the new piece does not fit *)
PopFront(cur, total, len, size, overlap, unit) ==
    LET left(j)  == total - Measure(Concat(SubSeq(cur, 1, j)), unit)
        again(j) == j < Len(cur)
                    /\ (left(j) > overlap \/ (left(j) + len > size /\ left(j) > 0))
        popped   == Least({j \in 0..Len(cur) : ~again(j)})
    IN  [cur |-> SubSeq(cur, popped + 1, Len(cur)), total |-> left(popped)]

(* _merge_splits with the separator "".  The state of its for loop is
   [cur, total, docs] (current_doc, total, docs); MergeStep is one pass of the
   loop body and MergeFrom runs the passes lo..hi in order, by halves; its
   first test never holds, it has the left half evaluated before the right. *)
AppendSplit(kept, d, unit, docs) ==
    [cur |-> Append(kept.cur, d), total |-> kept.total + Measure(d, unit),
     docs |-> docs]
MergeStep(s, d, size, overlap, unit) ==
    IF s.total + Measure(d, unit) > size /\ s.cur # <<>>
    THEN AppendSplit(PopFront(s.cur, s.total, Measure(d, unit), size, overlap, unit),
                     d, unit, s.docs \o JoinDocs(s.cur))
    ELSE AppendSplit(s, d, unit, s.docs)
RECURSIVE MergeFrom(_, _, _, _, _, _, _)
MergeFrom(splits, lo, hi, s, size, overlap, unit) ==
    IF lo > hi THEN s
    ELSE IF lo = hi THEN MergeStep(s, splits[lo], size, overlap, unit)
    ELSE LET mid  == (lo + hi) \div 2
             left == MergeFrom(splits, lo, mid, s, size, overlap, unit)
         IN  IF left.total < 0 THEN left
             ELSE MergeFrom(splits, mid + 1, hi, left, size, overlap, unit)
LastDoc(s) == s.docs \o JoinDocs(s.cur)
MergeSplits(splits, size, overlap, unit) ==
    LastDoc(MergeFrom(splits, 1, Len(splits),
                      [cur |-> <<>>, total |-> 0, docs |-> <<>>], size, overlap, unit))

(* RecursiveCharacterTextSplitter._split_text from separator number q on.
   The state of its for loop is [good, final] (_good_splits, final_chunks);
   SplitStep is one pass of the loop body and SplitLoop runs the passes lo..hi
   in order, by halves; its first test never holds, it has the left half
   evaluated before the right. *)
RECURSIVE FirstSeparator(_, _)
FirstSeparator(t, q) ==
    IF q >= Len(Separators) \/ Occurs(t, Separators[q]) THEN q
    ELSE FirstSeparator(t, q + 1)
RECURSIVE SplitTextFrom(_, _, _, _, _)
SplitStep(s, d, q, size, overlap, unit) ==
    IF Measure(d, unit) < size
    THEN [good |-> Append(s.good, d), final |-> s.final]
    ELSE [good |-> <<>>,
          final |-> s.final \o MergeSplits(s.good, size, overlap, unit)
                    \o (IF q >= Len(Separators) THEN <<Coalesce(d)>>
                        ELSE SplitTextFrom(d, q + 1, size, overlap, unit))]
RECURSIVE SplitLoop(_, _, _, _, _, _, _, _)
SplitLoop(splits, lo, hi, s, q, size, overlap, unit) ==
    IF lo > hi THEN s
    ELSE IF lo = hi THEN SplitStep(s, splits[lo], q, size, overlap, unit)
    ELSE LET mid  == (lo + hi) \div 2
             left == SplitLoop(splits, lo, mid, s, q, size, overlap, unit)
         IN  IF Len(left.good) < 0 THEN left
             ELSE SplitLoop(splits, mid + 1, hi, left, q, size, overlap, unit)
LastMerge(s, size, overlap, unit) == s.final \o MergeSplits(s.good, size, overlap, unit)
SplitTextFrom(t, q0, size, overlap, unit) ==
    LET q      == FirstSeparator(t, q0)
        splits == SplitWithSeparator(t, Separators[q])
    IN  LastMerge(SplitLoop(splits, 1, Len(splits), [good |-> <<>>, final |-> <<>>],
                            q, size, overlap, unit),
                  size, overlap, unit)
(* The chapter keyword is two words with a space between them: the splitter
   sees them apart. *)
Unfold(t) ==
    Concat([i \in 1..Len(t) |->
               IF IsChuAnyCase(t[i]) THEN <<Atom("w", 3), SP, Atom("w", 2)>>
               ELSE <<t[i]>>])
(* splitter.split_text(text) *)
SplitText(t, size, overlap, unit) == SplitTextFrom(Unfold(t), 1, size, overlap, unit)

(***************************************************************************)
(* Metadata.  A metadata dict is a function from its keys to values; a     *)
(* value is [t, v]: t is the Python type ("none", "bool", "int", "str",    *)
(* "list", "dict") and v the value.  A key the code does not set is not in *)
(* the domain.                                                             *)
(* The words the content flags look for ("Câu hỏi", "HOẠT ĐỘNG", "def ",   *)
(* "=", "hình", "Sau bài này", ...) other than the code fence and the      *)
(* exercises heading occur in no text of the model: their flags are False, *)
(* their counts 0 and their lists empty.                                   *)
(***************************************************************************)
Val(t, v) == [t |-> t, v |-> v]
None == Val("none", 0)
(* value is None *)
IsNone(value) == value.t = "none"
(* dict.get(key) *)
Get(dict, key) == IF key \in DOMAIN dict THEN dict[key] ELSE None

(***************************************************************************)
(* Chunks.  A chunk is [content, token_count, section_type,                *)
(* is_complete_section, chunk_id, lesson_index, metadata]; section_type    *)
(* and is_complete_section are "absent" when the code sets no such key.    *)
(* metadata holds the keys the chunker adds to the copy of the metadata of *)
(* the lesson (section_type among them); process_txt joins the metadata of *)
(* the lesson to it.  char_count is the length of content.                 *)
(* The constructor of the splitter raises ValueError when the overlap is   *)
(* larger than the chunk size: the chunkers return [raised, chunks].       *)
(***************************************************************************)
Chunk(content, section_type, complete) ==
    [content |-> content, token_count |-> CountTokens(content),
     section_type |-> section_type, is_complete_section |-> complete,
     chunk_id |-> <<>>, lesson_index |-> 0,
     metadata |-> IF section_type = "absent" THEN EmptyMap
                  ELSE [section_type |-> Val("str", section_type)]]
Raised == [raised |-> TRUE, chunks |-> <<>>]
Returned(chunks) == [raised |-> FALSE, chunks |-> chunks]
(* one chunk dict for each text the splitter returns *)
SubSection(chunk, idx, total) ==
    IF chunk.is_complete_section = "false"
    THEN [chunk EXCEPT !.metadata =
              [sub_section_index |-> Val("int", idx),
               total_sub_sections |-> Val("int", total)] @@ @]
    ELSE chunk
ChunksFrom(parts, section_type, complete) ==
    Returned([q \in 1..Len(parts) |->
                 SubSection(Chunk(parts[q], section_type, complete), q - 1, Len(parts))])

(* DocumentProcessor._basic_chunk (unit "chars") and
   EnhancedDocumentProcessor._basic_chunk (unit "tokens") *)
BasicChunk(t, size, overlap, unit) ==
    IF overlap > size THEN Raised
    ELSE ChunksFrom(SplitText(t, size, overlap, unit), "absent", "absent")

(* The section patterns that occur in the texts of the model:
   ```[\s\S]*?```                  code_block
   ^\d+\.\s+[A-Z..], re.MULTILINE   section_heading
   The index after the match at atom i, 0 if none. *)
CodeBlockEnd(t, i) ==
    IF t[i].k = "fence" /\ FindKind(t, i + 1, {"fence"}) <= Len(t)
    THEN FindKind(t, i + 1, {"fence"}) + 1 ELSE 0
SectionHeadingEnd(t, i) ==
    LET s == SkipKinds(t, i + 2, WS)
    IN  IF AtLineStart(t, i) /\ t[i].k = "num" /\ t[i].x = ""
           /\ i + 1 <= Len(t) /\ t[i + 1].k = "dot"
           /\ s > i + 2 /\ s <= Len(t) /\ StartsUpper(t[s])
        THEN s ELSE 0
BoundaryEnd(kind, t, i) ==
    IF kind = "code_block" THEN CodeBlockEnd(t, i) ELSE SectionHeadingEnd(t, i)
RECURSIVE BoundariesFrom(_, _, _, _)
BoundariesFrom(kind, t, hits, i) ==
    LET h == NextHit(hits, i)
    IN  IF h = 0 THEN <<>>
        ELSE <<[position |-> Offset(t, h), section_type |-> kind]>>
             \o BoundariesFrom(kind, t, hits, BoundaryEnd(kind, t, h))
BoundariesOf(kind, t) ==
    BoundariesFrom(kind, t, {j \in 1..Len(t) : BoundaryEnd(kind, t, j) # 0}, 1)
(* matches, sorted by start *)
Boundaries(t) ==
    SortByPosition(BoundariesOf("code_block", t) \o BoundariesOf("section_heading", t))

(* EnhancedDocumentProcessor._split_by_semantic_boundaries: a sequence of
   [text, section_type].  prev_end is the start of the match at hand for every
   match but the first, so only the text before the first match is a
   'general' section, when it is longer than 10 characters. *)
Section(content, section_type, least) ==
    IF TextLen(content) >= least
    THEN <<[text |-> content, section_type |-> section_type]>> ELSE <<>>
RECURSIVE SectionsFrom(_, _, _)
SectionsFrom(t, matches, i) ==
    IF i > Len(matches) THEN <<>>
    ELSE Section(Strip(Slice(t, matches[i].position, EndPos(t, matches, i))),
                 matches[i].section_type, 1)
         \o SectionsFrom(t, matches, i + 1)
SectionsOf(t, matches) ==
    IF matches = <<>> THEN <<[text |-> t, section_type |-> "general"]>>
    ELSE Section(Strip(Slice(t, 0, matches[1].position)), "general", 11)
         \o SectionsFrom(t, matches, 1)
SplitBySemanticBoundaries(t) == SectionsOf(t, Boundaries(t))

(* A section that is emitted whole instead of being split. *)
SplitLargeSectionWhole(section, size, overlap) ==
    Returned(<<Chunk(section.text, section.section_type, "false")>>)

(* EnhancedDocumentProcessor._split_large_section *)
SplitLargeSection(section, size, overlap) ==
    IF overlap * 2 > size THEN Raised
    ELSE ChunksFrom(SplitText(section.text, size, overlap * 2, "tokens"),
                    section.section_type, "false")

(* EnhancedDocumentProcessor._smart_chunk_by_sections *)
SectionChunks(section, size, overlap) ==
    IF CountTokens(section.text) <= size
    THEN Returned(<<Chunk(section.text, section.section_type, "true")>>)
    ELSE SplitLargeSection(section, size, overlap)
(* chunks.extend(...); an exception of the splitter ends the call *)
Extend(here, rest) ==
    IF here.raised \/ rest.raised THEN Raised
    ELSE Returned(here.chunks \o rest.chunks)
RECURSIVE SmartFrom(_, _, _, _)
SmartFrom(sections, i, size, overlap) ==
    IF i > Len(sections) THEN Returned(<<>>)
    ELSE Extend(SectionChunks(sections[i], size, overlap),
                SmartFrom(sections, i + 1, size, overlap))
SmartChunkBySections(t, size, overlap) ==
    SmartFrom(SplitBySemanticBoundaries(t), 1, size, overlap)

(***************************************************************************)
(* chunk_id = f"{txt_path.stem}_{chunk_id:04d}": the stem and the decimal  *)
(* digits of the counter, zero-padded to four.                             *)
(***************************************************************************)
RECURSIVE Digits(_)
Digits(n) == IF n < 10 THEN <<n>> ELSE Append(Digits(n \div 10), n % 10)
RECURSIVE ZeroPad(_, _)
ZeroPad(ds, width) == IF Len(ds) >= width THEN ds ELSE ZeroPad(<<0>> \o ds, width)
FormatChunkId(stem, n) == [stem |-> stem, digits |-> ZeroPad(Digits(n), 4)]

(* Ids that start again at 0 in every lesson. *)
AssignIdsPerLesson(chunks, stem, first, lesson_index) ==
    [q \in 1..Len(chunks) |->
        [chunks[q] EXCEPT !.chunk_id = FormatChunkId(stem, q - 1),
                          !.lesson_index = lesson_index]]

(* the chunks of one lesson get the next ids, in order *)
AssignIds(chunks, stem, first, lesson_index) ==
    [q \in 1..Len(chunks) |->
        [chunks[q] EXCEPT !.chunk_id = FormatChunkId(stem, first + q - 1),
                          !.lesson_index = lesson_index]]

(***************************************************************************)
(* The metadata of a lesson.                                               *)
(***************************************************************************)
(* the number a sequence of decimal digits spells: int(...) *)
RECURSIVE DigitsValue(_)
DigitsValue(ds) ==
    IF ds = <<>> THEN 0
    ELSE 10 * DigitsValue(SubSeq(ds, 1, Len(ds) - 1)) + ds[Len(ds)]

(* _detect_grade of both processors.  A file name is a sequence of
   characters; the extension holds no digit and is left out.
   re.search(r"(\d+)", filename): the first digit and the digits that follow
   it. *)
DigitOf ==
    ("0" :> 0) @@ ("1" :> 1) @@ ("2" :> 2) @@ ("3" :> 3) @@ ("4" :> 4) @@
    ("5" :> 5) @@ ("6" :> 6) @@ ("7" :> 7) @@ ("8" :> 8) @@ ("9" :> 9)
IsDigit(c) == c \in DOMAIN DigitOf
FirstDigits(name) ==
    IF \A i \in 1..Len(name) : ~IsDigit(name[i]) THEN <<>>
    ELSE LET a == Least({i \in 1..Len(name) : IsDigit(name[i])})
             b == Least({i \in a..Len(name) : i = Len(name) \/ ~IsDigit(name[i + 1])})
         IN  [i \in 1..(b - a + 1) |-> DigitOf[name[a + i - 1]]]
(* if grade: ... else: level = None *)
LevelOf(grade) ==
    IF grade = 0 THEN None
    ELSE IF grade <= 5 THEN Val("str", "Tieu hoc")
    ELSE IF grade <= 9 THEN Val("str", "THCS")
    ELSE Val("str", "THPT")
DetectGrade(name) ==
    IF FirstDigits(name) = <<>> THEN [grade |-> None, education_level |-> None]
    ELSE [grade |-> Val("int", DigitsValue(FirstDigits(name))),
          education_level |-> LevelOf(DigitsValue(FirstDigits(name)))]

(* The lesson heading patterns of _extract_lesson_metadata, all applied with
   re.IGNORECASE; the number is the place of the pattern in lesson_patterns,
   0 is the one pattern of EnhancedDocumentProcessor:
     1  BÀI\s+(\d+[A-Z]?)[\.\ s:：-]+([A-Z..][^\n\r]+?)(?=\n|$)
     3  Bài\s+(\d+[A-Z]?)[\.\ s:：-]+([A-Z..][^,\n\r]*?)(?!\s*,\s*Trang)(?=\n|$)
     6  BÀI\s+(\d+)\s+([A-Z..ĐỨ][^\n]+?)(?=\s+Sau\s+bài|(?=\n)|$)
     0  (?:BÀI|Bài)\s+(\d+)[A-Z]?[\.\s:：-]+([A-Z..][^\n\r]+)
   Patterns 2 and 7 spell the keyword in another encoding; a heading that
   pattern 4 or 5 matches and pattern 1 and 3 do not has "(Trang n)" after
   it, which no text of the model has.  The class [\.\ s:：-] holds no
   newline; it holds the letter s, with which no word of the model starts.
   The index at which the title starts, 0 if the pattern does not match at
   atom i. *)
HeadingSeparators(p) ==
    CASE p = 0 -> {"dot", "sp", "nl", "colon"}
      [] p = 6 -> WS
      [] OTHER -> {"dot", "sp", "colon"}
HeadingTitleAt(p, t, i) ==
    IF ~IsBaiAnyCase(t[i]) \/ HeadNum(t, i) = 0 THEN 0
    ELSE LET j == HeadNum(t, i)
             s == SkipKinds(t, j + 1, HeadingSeparators(p))
             e == FindKind(t, s, {"nl"})
         IN  IF /\ s > j + 1 /\ s <= Len(t) /\ StartsLetter(t[s])
                /\ (p = 6 => t[j].x = "")
                /\ TextLen(SubSeq(t, s, e - 1)) >= (IF p = 3 THEN 1 ELSE 2)
                /\ (p = 3 => ~HasKind(SubSeq(t, s, e - 1), {"comma"}))
             THEN s ELSE 0

(* lesson_title = re.sub(r'\s+\d+\s*$', '', group(2).strip()), whitespace
   collapsed (DocumentProcessor); group(2).strip() (EnhancedDocumentProcessor) *)
HeadingFound(t, i, s, enhanced) ==
    [ok |-> TRUE, number |-> t[HeadNum(t, i)].v,
     title |-> IF enhanced THEN Strip(SubSeq(t, s, FindKind(t, s, {"nl"}) - 1))
               ELSE Strip(CollapseSpaces(CutTrailingNumber(
                        Strip(SubSeq(t, s, FindKind(t, s, {"nl"}) - 1)))))]
(* for pattern in lesson_patterns: re.search(pattern, lesson_text); the first
   pattern that matches anywhere gives the number and the title *)
RECURSIVE FirstHeading(_, _, _, _)
FirstHeading(t, patterns, q, enhanced) ==
    IF q > Len(patterns) THEN [ok |-> FALSE]
    ELSE IF \E i \in 1..Len(t) : HeadingTitleAt(patterns[q], t, i) # 0
    THEN HeadingFound(t, NextHit({i \in 1..Len(t) : HeadingTitleAt(patterns[q], t, i) # 0}, 1),
                      HeadingTitleAt(patterns[q], t,
                          NextHit({i \in 1..Len(t) : HeadingTitleAt(patterns[q], t, i) # 0}, 1)),
                      enhanced)
    ELSE FirstHeading(t, patterns, q + 1, enhanced)

(* "BÀI TẬP" / "Bài tập" under re.IGNORECASE; "```" *)
HasExercises(c) ==
    \E i \in 1..Len(c) - 2 :
        IsBaiAnyCase(c[i]) /\ c[i + 1] = SP /\ c[i + 2].k = "TAP"
HasCodeFence(c) == \E i \in 1..Len(c) : c[i].k = "fence" /\ c[i].n >= 3
(* lesson_text.count("```") *)
RECURSIVE CountFences(_)
CountFences(c) ==
    IF c = <<>> THEN 0
    ELSE (IF c[1].k = "fence" THEN c[1].n \div 3 ELSE 0) + CountFences(Tail(c))

(* _extract_lesson_metadata of both processors.  The file name of the model
   and its texts name no subject: subject_info is the "Unknown" one. *)
LessonKeys(heading) ==
    IF heading.ok
    THEN [lesson_number |-> Val("int", heading.number),
          lesson_title |-> Val("str", heading.title)]
    ELSE EmptyMap
ExtractLessonMetadata(lesson_text, found, enhanced) ==
    [subject |-> Val("str", "Unknown"), subject_key |-> Val("str", "unknown"),
     grade |-> found.grade, education_level |-> found.education_level]
    @@ LessonKeys(FirstHeading(lesson_text, IF enhanced THEN <<0>> ELSE <<1, 3, 6>>,
                               1, enhanced))
    @@ [has_questions |-> Val("bool", FALSE), has_activities |-> Val("bool", FALSE),
        has_exercises |-> Val("bool", HasExercises(lesson_text)),
        has_code |-> Val("bool", HasCodeFence(lesson_text))]
    @@ (IF enhanced THEN EmptyMap
        ELSE [topics |-> Val("list", <<>>), sections |-> Val("list", <<>>),
              has_formula |-> Val("bool", FALSE), has_diagram |-> Val("bool", FALSE),
              code_blocks_count |-> Val("int", CountFences(lesson_text)),
              question_count |-> Val("int", 0), activity_count |-> Val("int", 0),
              content_length |-> Val("int", TextLen(lesson_text)),
              estimated_reading_time |-> Val("int", Max(1, TextLen(lesson_text) \div 200))])

(* process_txt: if lesson_num and not metadata.get('chapter'):
   chapter_info = chapter_map.get(lesson_num); if chapter_info: the three
   chapter keys are set.  'chapter' is f"Chủ đề {number}. {title}". *)
WithChapter(metadata, map) ==
    IF /\ ~IsNone(Get(metadata, "lesson_number"))
       /\ metadata["lesson_number"].v # 0
       /\ metadata["lesson_number"].v \in DOMAIN map
    THEN LET info == map[metadata["lesson_number"].v]
         IN  [chapter |-> Val("str", <<info.chapter_number, info.chapter_title>>),
              chapter_number |-> Val("int", info.chapter_number),
              chapter_title |-> Val("str", info.chapter_title)] @@ metadata
    ELSE metadata

(* the chunks carry the metadata of their lesson: metadata.copy() *)
WithLessonMetadata(chunks, metadata) ==
    [q \in 1..Len(chunks) |-> [chunks[q] EXCEPT !.metadata = @ @@ metadata]]

(* round(i / d, 2) for 0 <= i <= d, in hundredths.  i / d is the double
   nearest to the quotient and round gives the two-decimal number nearest to
   that double.  The quotient lies halfway between two hundredths when it is
   m / 200 for an odd m; the double of m / 200, for 200 <= m * 2^e < 400, is
   round(m * 2^(e + 49) / 25) / 2^(e + 52): it lies above the quotient when
   the remainder of m * 2^(e + 49) by 25 is 13 or more, below when it is 1 to
   12, and is the quotient itself when the remainder is 0, where round takes
   the even hundredth.  2^20 leaves the remainder 1 by 25. *)
HalfwayGoesUp(m) ==
    LET e == CHOOSE b \in 1..8 : 200 <= m * 2^b /\ m * 2^b < 400
        r == (m * 2^((e + 49) % 20)) % 25
    IN  IF r = 0 THEN ((m - 1) \div 2) % 2 = 1 ELSE r >= 13
RoundHundredths(i, d) ==
    LET q == (100 * i) \div d
        r == (100 * i) % d
    IN  IF 2 * r < d THEN q
        ELSE IF 2 * r > d THEN q + 1
        ELSE IF HalfwayGoesUp(2 * q + 1) THEN q + 1 ELSE q

(* A window whose index counts from 1. *)
ContextWindowFromOne(chunks, q) ==
    (IF q > 1
     THEN [prev_chunk_preview |->
              Val("str", Slice(chunks[q - 1].content,
                               Max(TextLen(chunks[q - 1].content) - 100, 0),
                               TextLen(chunks[q - 1].content)))]
     ELSE EmptyMap)
    @@ (IF q < Len(chunks)
        THEN [next_chunk_preview |->
                 Val("str", Slice(chunks[q + 1].content, 0,
                                  Min(100, TextLen(chunks[q + 1].content))))]
        ELSE EmptyMap)
    @@ [chunk_position |->
           Val("dict", [index |-> q, total |-> Len(chunks),
                        relative_position |->
                            RoundHundredths(q - 1, Max(Len(chunks) - 1, 1))])]

(* EnhancedDocumentProcessor._add_context_windows: content[-100:] of the
   chunk before, content[:100] of the chunk after, and the position;
   relative_position is round(i / max(len(chunks) - 1, 1), 2), in
   hundredths. *)
ContextWindow(chunks, q) ==
    (IF q > 1
     THEN [prev_chunk_preview |->
              Val("str", Slice(chunks[q - 1].content,
                               Max(TextLen(chunks[q - 1].content) - 100, 0),
                               TextLen(chunks[q - 1].content)))]
     ELSE EmptyMap)
    @@ (IF q < Len(chunks)
        THEN [next_chunk_preview |->
                 Val("str", Slice(chunks[q + 1].content, 0,
                                  Min(100, TextLen(chunks[q + 1].content))))]
        ELSE EmptyMap)
    @@ [chunk_position |->
           Val("dict", [index |-> q - 1, total |-> Len(chunks),
                        relative_position |->
                            RoundHundredths(q - 1, Max(Len(chunks) - 1, 1))])]
AddContextWindows(chunks) ==
    [q \in 1..Len(chunks) |->
        [chunks[q] EXCEPT !.metadata = ContextWindow(chunks, q) @@ @]]

(* EnhancedDocumentProcessor._extract_key_terms: \b[A-Z]{2,}\b matches no
   word of the model; \b[A-Z..][a-z..]+\b matches a capitalised word, "Bài"
   and "Trang" that stand between non-word characters.  list(terms)[:10] is
   in the order of the set: the value is the function that is defined on
   the words of the set (never more than ten in a chunk of the model).  A
   word that the splitter cut, or took apart into characters, is letters
   without a role (Frag) and gives no term. *)
WordKinds ==
    {"W", "w", "num", "BAI_U", "BAI_M", "BAI_L", "CHU_U", "CHU_M", "TRANG", "TAP"}
ExtractKeyTerms(c) ==
    {c[i] : i \in {j \in 1..Len(c) :
                     /\ (c[j].k = "W" /\ c[j].n >= 2) \/ c[j].k \in {"BAI_M", "TRANG"}
                     /\ (j > 1 => c[j - 1].k \notin WordKinds)
                     /\ (j < Len(c) => c[j + 1].k \notin WordKinds)}}

(* EnhancedDocumentProcessor._enrich_metadata.  has_formulas is
   [=+\-*/^()]; has_lists is ^\s*[-•\d]\s with re.MULTILINE: one digit, at
   the start of a line or after the whitespace that follows one, and
   whitespace after it.  char_per_token is round(char_count /
   max(token_count, 1), 2), kept as the pair of numerator and denominator. *)
ContentTypes(c) ==
    (IF HasCodeFence(c) THEN <<"code">> ELSE <<>>)
    \o (IF HasExercises(c) THEN <<"exercise">> ELSE <<>>)
HasLists(c) ==
    \E i \in 1..Len(c) - 1 :
        /\ c[i].k = "num" /\ c[i].x = "" /\ c[i].v < 10 /\ c[i].n = 1
        /\ c[i + 1].k \in WS
        /\ \E j \in 1..i : /\ AtLineStart(c, j)
                           /\ \A m \in j..(i - 1) : c[m].k \in WS
EnrichMetadata(chunk) ==
    [chunk EXCEPT !.metadata =
        [content_types |-> Val("list", ContentTypes(chunk.content)),
         key_terms |-> Val("list", [term \in ExtractKeyTerms(chunk.content) |-> TRUE]),
         content_density |->
            Val("dict", [char_per_token |-> <<TextLen(chunk.content),
                                              Max(chunk.token_count, 1)>>,
                         has_formulas |-> HasKind(chunk.content, {"star", "lp", "rp"}),
                         has_lists |-> HasLists(chunk.content),
                         has_code |-> HasCodeFence(chunk.content)])] @@ @]

(***************************************************************************)
(* VectorStoreManager.  _save_chunks writes the chunk dicts with json.dump *)
(* and load_chunks_from_json reads them back: strings, integers, booleans, *)
(* None, lists and dicts come back as what they were.  A loaded Chunk has  *)
(* chunk_id, content, metadata (the dict) and token_count only.            *)
(***************************************************************************)
LoadChunksFromJson(saved) ==
    [q \in 1..Len(saved) |->
        [chunk_id |-> saved[q].chunk_id, content |-> saved[q].content,
         metadata |-> saved[q].metadata, token_count |-> saved[q].token_count]]

(* A filter that lets None through no more. *)
IsScalar(value) == value.t \in {"str", "int", "float", "bool"}

(* isinstance(value, (str, int, float, bool)) or value is None *)
IsScalarOrNone(value) == value.t \in {"str", "int", "float", "bool", "none"}

(* chunks_to_langchain_documents; metadata is a dict already *)
FilteredMetadata(metadata) ==
    [key \in {k \in DOMAIN metadata : IsScalarOrNone(metadata[k])} |-> metadata[key]]
ChunksToLangchainDocuments(chunks) ==
    [q \in 1..Len(chunks) |->
        [page_content |-> chunks[q].content,
         metadata |-> FilteredMetadata(chunks[q].metadata)]]

(***************************************************************************)
(* Inputs.  A document is the concatenation of at most MaxBlocks blocks.   *)
(***************************************************************************)
MaxBlocks == 2

LongBody ==
    <<Atom("w", 30), SP, Atom("w", 30), DOT, SP, Atom("w", 30), NL, Atom("w", 30), NL>>
MediumBody == <<Atom("w", 30), SP, Atom("w", 30), NL>>

(* The blocks, in order:
   1  "CHỦ ĐỀ 1. <title>", "BÀI 1. <title>" and a body of 125 characters
   2  "Chủ đề 2: <title>", "Bài 2: <title>" and a body of 62 characters
   3  "Bài 1. <title>" and a body of 187 characters, no chapter heading
   4  "BÀI 1" alone on its line
   5  a line that holds "2D"
   6  a line of 40 characters that cost three tokens each
   7  "Trang 5"
   8  "1. <title>" and a body of 62 characters
   9  "BÀI 2. <title>" and a body of 187 characters, no chapter heading
   10 a fenced code block of 68 characters *)
Palette ==
    << <<Atom("CHU_U", 6), SP, Num(1, ""), DOT, SP, Atom("W", 8), NL,
         Atom("BAI_U", 3), SP, Num(1, ""), DOT, SP, Atom("W", 9), NL>> \o LongBody,
       <<Atom("CHU_M", 6), SP, Num(2, ""), Atom("colon", 1), SP, Atom("W", 8), NL,
         Atom("BAI_M", 3), SP, Num(2, ""), Atom("colon", 1), SP, Atom("W", 7), NL>>
           \o MediumBody,
       <<Atom("BAI_M", 3), SP, Num(1, ""), DOT, SP, Atom("W", 9), NL>>
           \o LongBody \o MediumBody,
       <<Atom("BAI_U", 3), SP, Num(1, ""), NL>>,
       <<Atom("W", 3), SP, Num(2, "D"), SP, Atom("w", 20), NL>>,
       <<Atom("D", 40), NL>>,
       <<Atom("TRANG", 5), SP, Num(5, ""), NL>>,
       <<Num(1, ""), DOT, SP, Atom("W", 6), NL>> \o MediumBody,
       <<Atom("BAI_U", 3), SP, Num(2, ""), DOT, SP, Atom("W", 7), NL>>
           \o MediumBody \o LongBody,
       <<Atom("fence", 3), Atom("w", 30), NL, Atom("w", 30), Atom("fence", 3), NL>> >>
Documents ==
    {Concat([q \in DOMAIN f |-> Palette[f[q]]]) :
        f \in UNION {[1..m -> 1..Len(Palette)] : m \in 0..MaxBlocks}}

(* The heading lines given to the resolver of _find_lesson_markers, in order:
   1  "Bài 1. <title>"              2  "BÀI 1. <title>"
   3  "BÀI 1 <title>"               4  "* Bài 1. <title>,"
   5  "Bài 1. <ti.tle> (Trang 5)"   6  "BÀI 1: <title>"
   7  "BÀI 1 <ti.tle>"
   A document of heading lines is the concatenation of at most MaxHeadings of
   them. *)
MaxHeadings == 2
HeadingLines ==
    << <<Atom("BAI_M", 3), SP, Num(1, ""), DOT, SP, Atom("W", 9), NL>>,
       <<Atom("BAI_U", 3), SP, Num(1, ""), DOT, SP, Atom("W", 9), NL>>,
       <<Atom("BAI_U", 3), SP, Num(1, ""), SP, Atom("W", 9), NL>>,
       <<Atom("star", 1), SP, Atom("BAI_M", 3), SP, Num(1, ""), DOT, SP, Atom("W", 9),
         Atom("comma", 1), NL>>,
       <<Atom("BAI_M", 3), SP, Num(1, ""), DOT, SP, Atom("W", 4), DOT, Atom("W", 4), SP,
         Atom("lp", 1), Atom("TRANG", 5), SP, Num(5, ""), Atom("rp", 1), NL>>,
       <<Atom("BAI_U", 3), SP, Num(1, ""), Atom("colon", 1), SP, Atom("W", 9), NL>>,
       <<Atom("BAI_U", 3), SP, Num(1, ""), SP, Atom("W", 4), DOT, Atom("W", 4), NL>> >>
HeadingDocuments ==
    {Concat([q \in DOMAIN f |-> HeadingLines[f[q]]]) :
        f \in UNION {[1..m -> 1..Len(HeadingLines)] : m \in 1..MaxHeadings}}

(* The processors as constructed: DocumentProcessor(chunk_size, chunk_overlap)
   in characters, EnhancedDocumentProcessor(chunk_size, chunk_overlap,
   smart_chunking) in tokens; the first of each kind has the defaults. *)
Processor(kind, size, overlap, smart) ==
    [kind |-> kind, chunk_size |-> size, chunk_overlap |-> overlap,
     smart_chunking |-> smart]
Processors ==
    {Processor("legacy", 1000, 200, TRUE), Processor("legacy", 40, 10, TRUE),
     Processor("enhanced", 512, 50, TRUE), Processor("enhanced", 40, 10, TRUE),
     Processor("enhanced", 40, 10, FALSE), Processor("enhanced", 40, 30, TRUE),
     Processor("enhanced", 2, 0, TRUE)}
(* the name of the file at txt_path, without its extension *)
Stem == <<"s", "g", "k">>

(***************************************************************************)
(* process_txt as a state machine.                                         *)
(*   processor       the processor object                                  *)
(*   document        the content of the file at txt_path                   *)
(*   pc              the position in process_txt                           *)
(*   full_text, chapter_map, lessons, chunk_id, all_chunks: the locals     *)
(*   lesson_idx      the number of lessons the loop has processed          *)
(*   markers         the markers the segmentation found (a local of the    *)
(*                   call to _split_into_lessons)                          *)
(*   origin          which pass produced lessons: "strict", "fallback",    *)
(*                   "whole"                                               *)
(*   run, first_outcome: the call is made twice on the same file;          *)
(*                   first_outcome is what the first call came to          *)
(* The resolver of _find_lesson_markers as a state machine of its own:     *)
(*   txt_path        the name of the file, exists: whether it is there     *)
(* Outside process_txt:                                                    *)
(*   batch           the loop of a caller over several files               *)
(*   documents       what chunks_to_langchain_documents made of the chunks *)
(*   detected        what _detect_grade returned for txt_path              *)
(*   candidates      the markers the patterns found in full_text           *)
(*   pending         the indices of the candidates not yet presented       *)
(*   unique_markers  the dict of the deduplication loop                    *)
(***************************************************************************)
VARIABLES processor, document, pc, full_text, chapter_map, lessons, markers,
          origin, lesson_idx, chunk_id, all_chunks, run, first_outcome,
          candidates, pending, unique_markers,
          txt_path, exists, batch, documents, detected

vars == <<processor, document, pc, full_text, chapter_map, lessons, markers,
          origin, lesson_idx, chunk_id, all_chunks, run, first_outcome,
          candidates, pending, unique_markers,
          txt_path, exists, batch, documents, detected>>
inputs == <<processor, document, txt_path, exists>>
outside == <<batch, documents, detected>>
resolver == <<candidates, pending, unique_markers>>

Enhanced == processor.kind = "enhanced"
NoOutcome == [pc |-> "none", all_chunks |-> <<>>]
NoBatch == [caller |-> "none", files |-> <<>>, outcomes |-> <<>>, state |-> "none"]
NotDetected == "none"

Init ==
    /\ processor \in Processors
    /\ document \in Documents
    /\ pc = "start"
    /\ full_text = <<>>
    /\ chapter_map = EmptyMap
    /\ lessons = <<>>
    /\ markers = <<>>
    /\ origin = "none"
    /\ lesson_idx = 0
    /\ chunk_id = 0
    /\ all_chunks = <<>>
    /\ run = 1
    /\ first_outcome = NoOutcome
    /\ candidates = <<>>
    /\ pending = {}
    /\ unique_markers = <<>>
    /\ txt_path = Stem
    /\ exists = TRUE
    /\ batch = NoBatch
    /\ documents = <<>>
    /\ detected = NotDetected

(* if not txt_path.exists(): raise FileNotFoundError;
   full_text = f.read().strip(); an empty file returns [] *)
ReadFile ==
    /\ pc = "start"
    /\ full_text' = IF exists THEN Strip(document) ELSE full_text
    /\ pc' = IF ~exists THEN "raised"
             ELSE IF Strip(document) = <<>> THEN "returned" ELSE "loaded"
    /\ UNCHANGED <<inputs, outside, chapter_map, lessons, markers, origin, lesson_idx,
                   chunk_id, all_chunks, run, first_outcome, resolver>>

(* DocumentProcessor: _remove_intro_sections (no banner in the texts of the
   model), _remove_table_of_contents, _preprocess_text;
   EnhancedDocumentProcessor: _preprocess_text *)
Preprocess ==
    /\ pc = "loaded"
    /\ full_text' = IF Enhanced THEN EnhancedPreprocessText(full_text)
                    ELSE PreprocessText(RemoveTableOfContents(full_text))
    /\ pc' = "preprocessed"
    /\ UNCHANGED <<inputs, outside, chapter_map, lessons, markers, origin, lesson_idx,
                   chunk_id, all_chunks, run, first_outcome, resolver>>

(* chapter_map = self._build_chapter_map(full_text) *)
BuildMap ==
    /\ pc = "preprocessed"
    /\ chapter_map' = BuildChapterMap(full_text, Enhanced)
    /\ pc' = "mapped"
    /\ UNCHANGED <<inputs, outside, full_text, lessons, markers, origin, lesson_idx,
                   chunk_id, all_chunks, run, first_outcome, resolver>>

(* lessons = self._split_into_lessons(full_text) *)
Segment ==
    /\ pc = "mapped"
    /\ markers' = IF Enhanced THEN EnhancedMarkers(full_text)
                  ELSE FindLessonMarkers(full_text)
    /\ lessons' = IF Enhanced THEN EnhancedSplitIntoLessons(full_text)
                  ELSE SplitIntoLessons(full_text)
    /\ origin' = "strict"
    /\ pc' = "segmented"
    /\ UNCHANGED <<inputs, outside, full_text, chapter_map, lesson_idx, chunk_id,
                   all_chunks, run, first_outcome, resolver>>

(* A test that every list passes. *)
AnyLessons == TRUE

(* if not lessons: *)
NoLessons == lessons = <<>>

(* DocumentProcessor only: if not lessons: lessons = _split_into_lessons_fallback *)
Fallback ==
    /\ pc = "segmented" /\ ~Enhanced
    /\ origin = "strict" /\ NoLessons
    /\ lessons' = SplitIntoLessonsFallback(full_text)
    /\ origin' = "fallback"
    /\ UNCHANGED <<inputs, outside, pc, full_text, chapter_map, markers, lesson_idx,
                   chunk_id, all_chunks, run, first_outcome, resolver>>

(* DocumentProcessor only: if not lessons: lessons = [full_text] *)
WholeDocument ==
    /\ pc = "segmented" /\ ~Enhanced
    /\ origin = "fallback" /\ NoLessons
    /\ lessons' = <<Lesson(full_text, 0, TextLen(full_text), 0)>>
    /\ origin' = "whole"
    /\ UNCHANGED <<inputs, outside, pc, full_text, chapter_map, markers, lesson_idx,
                   chunk_id, all_chunks, run, first_outcome, resolver>>

(* A counter that is not set back: it keeps the value the last call left. *)
StaleChunkId == chunk_id

(* chunk_id = 0 *)
InitialChunkId == 0

(* all_chunks = []; chunk_id = 0 *)
StartLoop ==
    /\ pc = "segmented"
    /\ ~(~Enhanced /\ lessons = <<>>)
    /\ all_chunks' = <<>>
    /\ chunk_id' = InitialChunkId
    /\ lesson_idx' = 0
    /\ pc' = "chunking"
    /\ UNCHANGED <<inputs, outside, full_text, chapter_map, lessons, markers, origin,
                   run, first_outcome, resolver>>

(* the chunks of one lesson: DocumentProcessor always takes _basic_chunk
   (metadata['sections'] is empty); EnhancedDocumentProcessor takes
   _smart_chunk_by_sections when smart_chunking is set *)
ChunksOf(lesson_text) ==
    IF Enhanced /\ processor.smart_chunking
    THEN SmartChunkBySections(lesson_text, processor.chunk_size, processor.chunk_overlap)
    ELSE BasicChunk(lesson_text, processor.chunk_size, processor.chunk_overlap,
                    IF Enhanced THEN "tokens" ELSE "chars")

(* metadata = self._extract_lesson_metadata(lesson_text, subject_info, grade,
   education_level), and the chapter of the lesson from chapter_map *)
LessonMetadata(lesson_text) ==
    WithChapter(ExtractLessonMetadata(lesson_text, DetectGrade(txt_path), Enhanced),
                chapter_map)
(* chunks = [self._enrich_metadata(c) for c in chunks] *)
EnrichAll(chunks) == [q \in 1..Len(chunks) |-> EnrichMetadata(chunks[q])]
(* what the loop does to the chunks of a lesson before it assigns the ids;
   add_context_windows is set in every processor of the model *)
Described(chunks, lesson_text) ==
    IF Enhanced
    THEN EnrichAll(AddContextWindows(WithLessonMetadata(chunks, LessonMetadata(lesson_text))))
    ELSE WithLessonMetadata(chunks, LessonMetadata(lesson_text))

(* one turn of the loop over lessons: chunk the lesson, assign the ids *)
ChunkLesson ==
    /\ pc = "chunking"
    /\ lesson_idx < Len(lessons)
    /\ \E made \in {ChunksOf(lessons[lesson_idx + 1].text)} :
          IF made.raised
          THEN /\ pc' = "raised"
               /\ UNCHANGED <<all_chunks, chunk_id, lesson_idx>>
          ELSE /\ all_chunks' = all_chunks
                      \o AssignIds(Described(made.chunks, lessons[lesson_idx + 1].text),
                                   txt_path, chunk_id, lesson_idx)
               /\ chunk_id' = chunk_id + Len(made.chunks)
               /\ lesson_idx' = lesson_idx + 1
               /\ pc' = pc
    /\ UNCHANGED <<inputs, outside, full_text, chapter_map, lessons, markers, origin,
                   run, first_outcome, resolver>>

(* return all_chunks *)
Return ==
    /\ pc = "chunking"
    /\ lesson_idx = Len(lessons)
    /\ pc' = "returned"
    /\ UNCHANGED <<inputs, outside, full_text, chapter_map, lessons, markers, origin,
                   lesson_idx, chunk_id, all_chunks, run, first_outcome, resolver>>

(* the chunks that process_txt saved are loaded and made documents of:
   VectorStoreManager.load_chunks_from_json, chunks_to_langchain_documents *)
MakeDocuments ==
    /\ pc = "returned"
    /\ batch = NoBatch
    /\ documents' = ChunksToLangchainDocuments(LoadChunksFromJson(all_chunks))
    /\ pc' = "indexed"
    /\ UNCHANGED <<inputs, batch, detected, full_text, chapter_map, lessons, markers,
                   origin, lesson_idx, chunk_id, all_chunks, run, first_outcome,
                   resolver>>

(* the caller calls process_txt once more on the same file; chunk_id keeps
   its value until the new call assigns it *)
RunAgain ==
    /\ pc \in {"returned", "raised"}
    /\ run = 1
    /\ batch = NoBatch
    /\ first_outcome' = [pc |-> pc, all_chunks |-> all_chunks]
    /\ run' = 2
    /\ pc' = "start"
    /\ full_text' = <<>>
    /\ chapter_map' = EmptyMap
    /\ lessons' = <<>>
    /\ markers' = <<>>
    /\ origin' = "none"
    /\ lesson_idx' = 0
    /\ all_chunks' = <<>>
    /\ UNCHANGED <<inputs, outside, chunk_id, resolver>>

Next ==
    \/ ReadFile
    \/ Preprocess
    \/ BuildMap
    \/ Segment
    \/ Fallback
    \/ WholeDocument
    \/ StartLoop
    \/ ChunkLesson
    \/ Return
    \/ MakeDocuments
    \/ RunAgain

Spec == Init /\ [][Next]_vars

(***************************************************************************)
(* A caller's loop over several files.                                     *)
(*   main of document_processor.py and of document_processor_enhanced.py:  *)
(*     for txt_file in path.glob("*.txt"):                                 *)
(*         processor.process_txt(txt_file, args.output)                    *)
(*   batch_process_organized_structure of scripts/batch_process.py:        *)
(*     for idx, pdf_file in enumerate(pdf_files, 1):                       *)
(*         try: chunks = processor.process_pdf(pdf_file, ...)              *)
(*         except Exception as e: logger.error(...); continue              *)
(*   with processor = DocumentProcessor(...) of document_processor.py,     *)
(*   a class that has no method process_pdf: the call raises               *)
(*   AttributeError.                                                       *)
(* batch is [caller, files, outcomes, state]: files are [exists, document],*)
(* outcomes is how the calls made so far ended, state is "running",        *)
(* "finished" or "aborted" (the exception left the loop).                  *)
(***************************************************************************)
MaxFiles == 3
File(there, content) == [exists |-> there, document |-> content]
(* a missing file (a dangling link that glob lists), "BÀI 1" alone, "Trang 5"
   and a lesson with its body *)
BatchFiles ==
    {File(FALSE, <<>>), File(TRUE, Palette[4]), File(TRUE, Palette[7]),
     File(TRUE, Palette[3])}
Batches ==
    {[caller |-> c, files |-> f, outcomes |-> <<>>, state |-> "running"] :
        c \in {"main", "batch_process"},
        f \in UNION {[1..m -> BatchFiles] : m \in 2..MaxFiles}}

InitBatch ==
    /\ processor \in {Processor("legacy", 1000, 200, TRUE),
                      Processor("enhanced", 512, 50, TRUE)}
    /\ batch \in {b \in Batches : b.caller = "batch_process" => processor.kind = "legacy"}
    /\ document = <<>>
    /\ exists = FALSE
    /\ pc = "idle"
    /\ full_text = <<>>
    /\ chapter_map = EmptyMap
    /\ lessons = <<>>
    /\ markers = <<>>
    /\ origin = "none"
    /\ lesson_idx = 0
    /\ chunk_id = 0
    /\ all_chunks = <<>>
    /\ run = 1
    /\ first_outcome = NoOutcome
    /\ candidates = <<>>
    /\ pending = {}
    /\ unique_markers = <<>>
    /\ txt_path = Stem
    /\ documents = <<>>
    /\ detected = NotDetected

(* main: processor.process_txt(txt_file, args.output) on the next file *)
CallProcessTxt ==
    /\ batch.state = "running" /\ batch.caller = "main"
    /\ pc = "idle"
    /\ document' = batch.files[Len(batch.outcomes) + 1].document
    /\ exists' = batch.files[Len(batch.outcomes) + 1].exists
    /\ pc' = "start"
    /\ full_text' = <<>>
    /\ chapter_map' = EmptyMap
    /\ lessons' = <<>>
    /\ markers' = <<>>
    /\ origin' = "none"
    /\ lesson_idx' = 0
    /\ all_chunks' = <<>>
    /\ UNCHANGED <<processor, txt_path, outside, chunk_id, run, first_outcome, resolver>>

(* batch_process: processor.process_pdf(pdf_file, subject_output_dir) raises
   AttributeError *)
CallProcessPdf ==
    /\ batch.state = "running" /\ batch.caller = "batch_process"
    /\ pc = "idle"
    /\ pc' = "raised"
    /\ UNCHANGED <<inputs, outside, full_text, chapter_map, lessons, markers, origin,
                   lesson_idx, chunk_id, all_chunks, run, first_outcome, resolver>>

(* the call is over: main has no handler, an exception leaves its loop;
   batch_process logs it and continues with the next file *)
EndCall ==
    /\ batch.state = "running"
    /\ pc \in {"returned", "raised"}
    /\ batch' = [batch EXCEPT
                    !.outcomes = Append(@, pc),
                    !.state = IF pc = "raised" /\ batch.caller = "main" THEN "aborted"
                              ELSE IF Len(batch.outcomes) + 1 = Len(batch.files)
                                   THEN "finished" ELSE "running"]
    /\ pc' = "idle"
    /\ UNCHANGED <<inputs, documents, detected, full_text, chapter_map, lessons,
                   markers, origin, lesson_idx, chunk_id, all_chunks, run,
                   first_outcome, resolver>>

NextBatch ==
    \/ CallProcessTxt
    \/ CallProcessPdf
    \/ EndCall
    \/ ReadFile
    \/ Preprocess
    \/ BuildMap
    \/ Segment
    \/ Fallback
    \/ WholeDocument
    \/ StartLoop
    \/ ChunkLesson
    \/ Return

SpecBatch == InitBatch /\ [][NextBatch]_vars

(***************************************************************************)
(* _detect_grade on file names: the names are the sequences of at most     *)
(* MaxName characters of NameAlphabet.                                     *)
(***************************************************************************)
MaxName == 3
NameAlphabet == {"a", "_", "0", "1", "5", "6", "9"}
FileNames == UNION {[1..m -> NameAlphabet] : m \in 0..MaxName}

InitGrade ==
    /\ txt_path \in FileNames
    /\ detected = NotDetected
    /\ pc = "named"
    /\ processor = Processor("legacy", 1000, 200, TRUE)
    /\ document = <<>>
    /\ exists = TRUE
    /\ batch = NoBatch
    /\ documents = <<>>
    /\ full_text = <<>>
    /\ chapter_map = EmptyMap
    /\ lessons = <<>>
    /\ markers = <<>>
    /\ origin = "none"
    /\ lesson_idx = 0
    /\ chunk_id = 0
    /\ all_chunks = <<>>
    /\ run = 1
    /\ first_outcome = NoOutcome
    /\ candidates = <<>>
    /\ pending = {}
    /\ unique_markers = <<>>

(* grade, education_level = self._detect_grade(txt_path.name) *)
CallDetectGrade ==
    /\ pc = "named"
    /\ detected' = DetectGrade(txt_path)
    /\ pc' = "graded"
    /\ UNCHANGED <<inputs, batch, documents, full_text, chapter_map, lessons, markers,
                   origin, lesson_idx, chunk_id, all_chunks, run, first_outcome,
                   resolver>>

NextGrade == CallDetectGrade

SpecGrade == InitGrade /\ [][NextGrade]_vars

(***************************************************************************)
(* The deduplication loop of _find_lesson_markers with the candidates      *)
(* presented in any order, then the sort by position.                      *)
(***************************************************************************)
InitResolver ==
    /\ processor = Processor("legacy", 1000, 200, TRUE)
    /\ document \in Documents \cup HeadingDocuments
    /\ pc = "resolving"
    /\ full_text = Strip(document)
    /\ candidates = Candidates(Strip(document))
    /\ pending = 1..Len(candidates)
    /\ unique_markers = <<>>
    /\ markers = <<>>
    /\ chapter_map = EmptyMap
    /\ lessons = <<>>
    /\ origin = "none"
    /\ lesson_idx = 0
    /\ chunk_id = 0
    /\ all_chunks = <<>>
    /\ run = 1
    /\ first_outcome = NoOutcome
    /\ txt_path = Stem
    /\ exists = TRUE
    /\ batch = NoBatch
    /\ documents = <<>>
    /\ detected = NotDetected

(* one turn of the loop: for marker in markers *)
PresentCandidate ==
    /\ pc = "resolving"
    /\ \E i \in pending :
          /\ unique_markers' = DedupStep(unique_markers, candidates[i])
          /\ pending' = pending \ {i}
    /\ UNCHANGED <<inputs, outside, pc, full_text, chapter_map, lessons, markers, origin,
                   lesson_idx, chunk_id, all_chunks, run, first_outcome, candidates>>

(* final_markers = sorted(unique_markers.values(), key=position) *)
SortMarkers ==
    /\ pc = "resolving"
    /\ pending = {}
    /\ markers' = SortByPosition(unique_markers)
    /\ pc' = "resolved"
    /\ UNCHANGED <<inputs, outside, full_text, chapter_map, lessons, origin, lesson_idx,
                   chunk_id, all_chunks, run, first_outcome, resolver>>

(* the whole loop as the code runs it, over markers in the order in which the
   eight pattern loops appended them, then the sort *)
DedupInPatternOrder ==
    /\ pc = "resolving"
    /\ pending = 1..Len(candidates)
    /\ unique_markers' = Dedup(candidates)
    /\ pending' = {}
    /\ markers' = SortByPosition(Dedup(candidates))
    /\ pc' = "found"
    /\ UNCHANGED <<inputs, outside, full_text, chapter_map, lessons, origin, lesson_idx,
                   chunk_id, all_chunks, run, first_outcome, candidates>>

NextResolver ==
    \/ PresentCandidate
    \/ SortMarkers
    \/ DedupInPatternOrder

SpecResolver == InitResolver /\ [][NextResolver]_vars

(***************************************************************************)
(* Properties of process_txt.                                              *)
(***************************************************************************)
Segmented == pc \in {"chunking", "returned"}
BasicMode(c) == c.section_type = "absent"

(* C1: for every file whose text is not empty, process_txt ends segmentation
   with at least one non-empty lesson span and returns at least one chunk. *)
C1_NeverEmptyResult ==
    (pc = "returned" /\ Strip(document) # <<>>)
        => /\ \E q \in 1..Len(lessons) : lessons[q].text # <<>>
           /\ all_chunks # <<>>

(* The offsets of the document that lie in the span of lesson q. *)
Covers(q, off) == lessons[q].start <= off /\ off < lessons[q].end

(* C2: the character ranges of the lesson spans produced after fallback
   partition the whole document: every offset lies in exactly one span; the
   spans of the fallback pass leave no gap. *)
C2_SpansPartitionDocument ==
    (Segmented /\ ~Enhanced /\ origin \in {"fallback", "whole"})
        => \A off \in 0..(TextLen(full_text) - 1) :
               Cardinality({q \in 1..Len(lessons) : Covers(q, off)}) = 1

(* the value set of a sequence *)
Range(seq) == {seq[q] : q \in 1..Len(seq)}

(* the candidate selected for each key: its key, position and title *)
Selection(ms) == {<<KeyOf(ms[q]), ms[q].position, ms[q].title>> : q \in 1..Len(ms)}

(* C3: for a fixed set of candidates, the deduplication step selects the same
   candidate for every key in whatever order the candidates are presented:
   the selection equals the one made in the order of the patterns. *)
C3_SelectionIndependentOfOrder ==
    pending = {} => Selection(unique_markers) = Selection(Dedup(candidates))

(* the positions of the lesson items numbered n, and of the chapter items
   before position p *)
LessonPositions(items, n) ==
    {items[i].position : i \in {j \in 1..Len(items) :
                                 items[j].type = "LESSON" /\ items[j].number = n}}
ChapterPositionsBefore(items, p) ==
    {items[i].position : i \in {j \in 1..Len(items) :
                                 items[j].type = "CHAPTER" /\ items[j].position < p}}
SetMax(S) == CHOOSE m \in S : \A o \in S : o <= m
Mapped == pc \notin {"start", "loaded", "preprocessed", "resolving", "resolved"}

(* C4: a lesson whose number occurs at one position and that has a chapter
   marker at a smaller position is assigned the chapter marker with the
   largest position smaller than the lesson's. *)
C4_NearestPrecedingChapter ==
    (Mapped /\ full_text # <<>>) =>
        LET items == Items(full_text, Enhanced)
        IN  \A i \in 1..Len(items) :
               (/\ items[i].type = "LESSON"
                /\ Cardinality(LessonPositions(items, items[i].number)) = 1
                /\ ChapterPositionsBefore(items, items[i].position) # {})
               => /\ items[i].number \in DOMAIN chapter_map
                  /\ chapter_map[items[i].number].at =
                        SetMax(ChapterPositionsBefore(items, items[i].position))

(* C4 witness: chapter 1, lesson 1, chapter 2, lesson 2 in this order: lesson 1
   got chapter 1 and lesson 2 got chapter 2 *)
C4_Witness ==
    /\ pc = "mapped"
    /\ DOMAIN chapter_map = {1, 2}
    /\ chapter_map[1].chapter_number = 1 /\ chapter_map[1].at = 0
    /\ chapter_map[2].chapter_number = 2
    /\ LessonPositions(Items(full_text, Enhanced), 1) # {}
    /\ \A p \in LessonPositions(Items(full_text, Enhanced), 1) :
           0 < p /\ p < chapter_map[2].at
    /\ \A p \in LessonPositions(Items(full_text, Enhanced), 2) :
           chapter_map[2].at < p

(* C5: the chunk ids of one call are pairwise distinct and the k-th chunk,
   counted from 0 across all lessons, has the id made of the stem and k
   zero-padded to four digits. *)
C5_ConsecutiveChunkIds ==
    /\ \A k \in 1..Len(all_chunks) :
          /\ all_chunks[k].chunk_id.stem = Stem
          /\ Len(all_chunks[k].chunk_id.digits) = 4
          /\ DigitsValue(all_chunks[k].chunk_id.digits) = k - 1
    /\ \A j, k \in 1..Len(all_chunks) :
          j # k => all_chunks[j].chunk_id # all_chunks[k].chunk_id

(* C5 witness: a call returned the chunks of several lessons that yielded
   different numbers of chunks, more than ten in all *)
C5_Witness ==
    /\ pc = "returned" /\ Len(lessons) >= 2 /\ Len(all_chunks) > 10
    /\ \E a, b \in 1..Len(lessons) :
          Cardinality({k \in 1..Len(all_chunks) : all_chunks[k].lesson_index = a - 1})
          > Cardinality({k \in 1..Len(all_chunks) : all_chunks[k].lesson_index = b - 1})
    /\ \A a \in 1..Len(lessons) :
          \E k \in 1..Len(all_chunks) : all_chunks[k].lesson_index = a - 1

Contents(chunks) == [k \in 1..Len(chunks) |-> chunks[k].content]
Ids(chunks) == [k \in 1..Len(chunks) |-> chunks[k].chunk_id]

(* C6: the second call of process_txt on the same file with the same
   configuration ends as the first did, with the same sequence of chunk
   contents and the same sequence of chunk ids. *)
C6_SecondRunIdentical ==
    (run = 2 /\ pc \in {"returned", "raised"})
        => /\ pc = first_outcome.pc
           /\ Contents(all_chunks) = Contents(first_outcome.all_chunks)
           /\ Ids(all_chunks) = Ids(first_outcome.all_chunks)

(* C6 witness: the second call returned several chunks *)
C6_Witness ==
    run = 2 /\ pc = "returned" /\ Len(all_chunks) >= 3 /\ Len(lessons) >= 2

(* C7: the resolved markers are ordered by position, and the spans cut between
   consecutive markers have strictly increasing start offsets and do not
   overlap. *)
C7_MarkersStrictlyIncreasing ==
    (Segmented /\ ~Enhanced)
        => \A i, j \in 1..Len(markers) :
               i < j => /\ markers[i].position < markers[j].position
                        /\ EndPos(full_text, markers, i) <= markers[j].position

(* the part of C7 that is about the order alone *)
MarkersOrderedByPosition ==
    \A i, j \in 1..Len(markers) : i < j => markers[i].position <= markers[j].position

Keys(ms) == {KeyOf(ms[q]) : q \in 1..Len(ms)}

(* C8: the output of the resolver has exactly one marker for each key that
   occurs among the candidates, that marker is one of the candidates with the
   key, and no two output markers share a key. *)
C8_OneMarkerPerKey ==
    pc = "resolved"
        => /\ Keys(markers) = Keys(candidates)
           /\ \A q \in 1..Len(markers) : markers[q] \in Range(candidates)
           /\ \A q, r \in 1..Len(markers) :
                  q # r => KeyOf(markers[q]) # KeyOf(markers[r])

(* C8 witness: the candidates had two keys and more candidates than keys: the
   resolver dropped the other candidates of a key *)
C8_Witness ==
    /\ pc = "resolved"
    /\ Cardinality(Keys(candidates)) >= 2
    /\ Len(markers) < Len(candidates)
    /\ \E a, b \in 1..Len(candidates) :
          a # b /\ KeyOf(candidates[a]) = KeyOf(candidates[b])

(* C9: every chunk of semantic-mode chunking has token_count <= chunk_size,
   but for a chunk that is one character, which nothing can split. *)
C9_SemanticChunkWithinSize ==
    \A k \in 1..Len(all_chunks) :
        ~BasicMode(all_chunks[k])
            => \/ all_chunks[k].token_count <= processor.chunk_size
               \/ TextLen(all_chunks[k].content) = 1

(* C9 witness: semantic mode split an oversized section; one of the chunks is
   within the size, one is a single character that costs more *)
C9_Witness ==
    /\ pc = "returned" /\ Enhanced /\ processor.smart_chunking
    /\ \E k \in 1..Len(all_chunks) :
          /\ all_chunks[k].is_complete_section = "false"
          /\ all_chunks[k].token_count <= processor.chunk_size
          /\ TextLen(all_chunks[k].content) > 1
    /\ \E k \in 1..Len(all_chunks) :
          all_chunks[k].token_count > processor.chunk_size

(* C10: every chunk of basic-mode chunking, in either profile, reports
   token_count <= chunk_size + chunk_overlap. *)
C10_BasicChunkWithinSizePlusOverlap ==
    \A k \in 1..Len(all_chunks) :
        BasicMode(all_chunks[k])
            => all_chunks[k].token_count
                  <= processor.chunk_size + processor.chunk_overlap

(* the number of characters of t other than whitespace *)
RECURSIVE Ink(_, _, _)
Ink(t, lo, hi) ==
    IF lo > hi THEN 0
    ELSE IF lo = hi THEN (IF IsWs(t[lo]) THEN 0 ELSE t[lo].n)
    ELSE Ink(t, lo, (lo + hi) \div 2) + Ink(t, (lo + hi) \div 2 + 1, hi)
InkOf(t) == Ink(t, 1, Len(t))
RECURSIVE InkOfChunks(_)
InkOfChunks(chunks) ==
    IF chunks = <<>> THEN 0
    ELSE InkOf(chunks[1].content) + InkOfChunks(Tail(chunks))

(* C11: for a file whose text is not empty and in which segmentation detects
   no lesson marker, the lessons are exactly one span whose text is the whole
   text handed to segmentation, and the call returns a non-empty list of
   chunks that holds every character of that text other than whitespace. *)
C11_NoMarkerWholeDocument ==
    (pc = "returned" /\ Strip(document) # <<>> /\ markers = <<>>)
        => /\ lessons = <<Lesson(full_text, 0, TextLen(full_text), 0)>>
           /\ all_chunks # <<>>
           /\ InkOfChunks(all_chunks) >= InkOf(full_text)

ChapterPositionsAfter(items, p) ==
    {items[i].position : i \in {j \in 1..Len(items) :
                                 items[j].type = "CHAPTER" /\ items[j].position > p}}
SetMin(S) == CHOOSE m \in S : \A o \in S : m <= o

(* C12: in both processors, a lesson whose number occurs at one position,
   that has no chapter marker at a smaller position and has one at a larger
   position is assigned the chapter marker with the smallest position larger
   than the lesson's. *)
C12_NearestFollowingChapter ==
    (Mapped /\ full_text # <<>>) =>
        LET items == Items(full_text, Enhanced)
        IN  \A i \in 1..Len(items) :
               (/\ items[i].type = "LESSON"
                /\ Cardinality(LessonPositions(items, items[i].number)) = 1
                /\ ChapterPositionsBefore(items, items[i].position) = {}
                /\ ChapterPositionsAfter(items, items[i].position) # {})
               => /\ items[i].number \in DOMAIN chapter_map
                  /\ chapter_map[items[i].number].at =
                        SetMin(ChapterPositionsAfter(items, items[i].position))

NoChapterMarker(t, enhanced) ==
    \A i \in 1..Len(Items(t, enhanced)) : Items(t, enhanced)[i].type # "CHAPTER"
ChapterKeys == {"chapter", "chapter_number", "chapter_title"}

(* C13: when the text has no chapter marker, the call still returns, every
   lesson marker of the text is recorded in the chapter map with a null
   assignment, and every chunk of a lesson carries the three chapter keys
   with the value null. *)
C13_NoChapterNullAssignment ==
    (pc = "returned" /\ full_text # <<>> /\ NoChapterMarker(full_text, Enhanced)) =>
        /\ \A i \in 1..Len(Items(full_text, Enhanced)) :
              /\ Items(full_text, Enhanced)[i].number \in DOMAIN chapter_map
              /\ IsNone(chapter_map[Items(full_text, Enhanced)[i].number])
        /\ \A k \in 1..Len(all_chunks) :
              "lesson_number" \in DOMAIN all_chunks[k].metadata =>
                  \A key \in ChapterKeys :
                      /\ key \in DOMAIN all_chunks[k].metadata
                      /\ IsNone(all_chunks[k].metadata[key])

StructuralKeys ==
    {"chapter", "chapter_number", "chapter_title", "lesson_number", "lesson_title",
     "section"}
(* a value that is null or an empty list *)
IsAbsent(value) == IsNone(value) \/ (value.t = "list" /\ value.v = <<>>)

(* C16: the metadata of every chunk of a returned call holds each of the
   structural keys, and no other key of it has a null or empty value. *)
C16_StructuralKeysAlwaysPresent ==
    pc = "returned" =>
        \A k \in 1..Len(all_chunks) :
            /\ StructuralKeys \subseteq DOMAIN all_chunks[k].metadata
            /\ \A key \in DOMAIN all_chunks[k].metadata \ StructuralKeys :
                  ~IsAbsent(all_chunks[k].metadata[key])

(* the code blocks among the sections of a lesson that cost more tokens
   than the chunk size *)
OversizedCodeBlocks(lesson_text, size) ==
    {SplitBySemanticBoundaries(lesson_text)[i].text :
        i \in {j \in 1..Len(SplitBySemanticBoundaries(lesson_text)) :
                 /\ SplitBySemanticBoundaries(lesson_text)[j].section_type = "code_block"
                 /\ CountTokens(SplitBySemanticBoundaries(lesson_text)[j].text) > size}}

(* C14: with smart chunking, a fenced code block that costs more tokens than
   the chunk size comes out of a returned call as one chunk of its lesson:
   the content is the whole block and token_count is above the chunk size. *)
C14_OversizedUnitKeptWhole ==
    (pc = "returned" /\ Enhanced /\ processor.smart_chunking) =>
        \A l \in 1..Len(lessons) :
            \A block \in OversizedCodeBlocks(lessons[l].text, processor.chunk_size) :
                \E k \in 1..Len(all_chunks) :
                    /\ all_chunks[k].lesson_index = l - 1
                    /\ all_chunks[k].content = block
                    /\ all_chunks[k].token_count > processor.chunk_size

(* C15: when the loop of a caller is over, every file that comes after a
   file whose processing raised has been handed to processing too. *)
C15_FailureConfinedToDocument ==
    batch.state \in {"finished", "aborted"} =>
        \A i \in 1..Len(batch.outcomes) :
            batch.outcomes[i] = "raised" =>
                \A j \in (i + 1)..Len(batch.files) : j <= Len(batch.outcomes)

ScalarTypes == {"str", "int", "float", "bool"}
NestedTypes == {"list", "dict"}

(* C17: the metadata of every document made of the chunks holds scalar and
   null values only: each entry of the chunk's metadata whose value is a
   list or a dict is left out, each entry whose value is a scalar or null
   is there with the same key and value, and no other key is there. *)
C17_OnlyScalarsReachTheStore ==
    pc = "indexed" =>
        /\ Len(documents) = Len(all_chunks)
        /\ \A q \in 1..Len(documents) :
              /\ DOMAIN documents[q].metadata \subseteq DOMAIN all_chunks[q].metadata
              /\ \A key \in DOMAIN all_chunks[q].metadata :
                    /\ all_chunks[q].metadata[key].t \in NestedTypes
                          => key \notin DOMAIN documents[q].metadata
                    /\ all_chunks[q].metadata[key].t \in ScalarTypes \cup {"none"}
                          => /\ key \in DOMAIN documents[q].metadata
                             /\ documents[q].metadata[key] = all_chunks[q].metadata[key]
              /\ \A key \in DOMAIN documents[q].metadata :
                    documents[q].metadata[key].t \in ScalarTypes \cup {"none"}
(* documents were made of a chunk whose metadata has a list, a dict, a null
   and a string *)
C17_Witness ==
    /\ pc = "indexed"
    /\ \E q \in 1..Len(documents) :
          /\ {"key_terms", "chunk_position", "grade", "lesson_title"}
                \subseteq DOMAIN all_chunks[q].metadata
          /\ all_chunks[q].metadata["key_terms"].t = "list"
          /\ all_chunks[q].metadata["chunk_position"].t = "dict"
          /\ {"grade", "lesson_title"} \subseteq DOMAIN documents[q].metadata
          /\ "key_terms" \notin DOMAIN documents[q].metadata
          /\ "chunk_position" \notin DOMAIN documents[q].metadata
          /\ IsNone(documents[q].metadata["grade"])
          /\ documents[q].metadata["lesson_title"].t = "str"

(* "Bài 1. <title>" and "BÀI 2. <title>", each with a body of 187 characters *)
TwoLessons == Palette[3] \o Palette[9]
DefaultProcessors ==
    {Processor("legacy", 1000, 200, TRUE), Processor("enhanced", 512, 50, TRUE)}
LessonTitles ==
    [l \in 1..Len(lessons) |->
        Get(LessonMetadata(lessons[l].text), "lesson_title").v]

(* C18: for the document of two lesson headings 1 and 2 with bodies of about
   200 characters, a processor with the default configuration returns two
   lesson spans, numbered 1 and 2 in that order and titled as the headings,
   and each span gives at least one chunk with is_complete_section true. *)
C18_TwoLessonsTwoCompleteSections ==
    (pc = "returned" /\ document = TwoLessons /\ processor \in DefaultProcessors) =>
        /\ Len(lessons) = 2
        /\ lessons[1].number = 1 /\ lessons[2].number = 2
        /\ LessonTitles = <<<<Atom("W", 9)>>, <<Atom("W", 7)>>>>
        /\ \A l \in 1..2 :
              \E k \in 1..Len(all_chunks) :
                  /\ all_chunks[k].metadata["lesson_number"] = Val("int", l)
                  /\ all_chunks[k].is_complete_section = "true"

(* the digits of a name from its first digit on, up to the first character
   that is no digit *)
RECURSIVE DigitRun(_)
DigitRun(name) ==
    IF name = <<>> \/ ~IsDigit(Head(name)) THEN <<>>
    ELSE <<DigitOf[Head(name)]>> \o DigitRun(Tail(name))
RECURSIVE FromFirstDigit(_)
FromFirstDigit(name) ==
    IF name = <<>> \/ IsDigit(Head(name)) THEN name ELSE FromFirstDigit(Tail(name))
ExpectedLevel(grade) ==
    IF grade <= 5 THEN "Tieu hoc" ELSE IF grade <= 9 THEN "THCS" ELSE "THPT"

(* C19: _detect_grade gives (None, None) for a name with no digit; for any
   other name the grade is the integer its first run of digits spells and
   the level is 'Tiểu học' for a grade of at most 5, 'THCS' for 6 to 9 and
   'THPT' from 10 on, so the level is None only when the grade is None. *)
C19_GradeAndLevelFromFirstDigits ==
    pc = "graded" =>
        IF FromFirstDigit(txt_path) = <<>>
        THEN IsNone(detected.grade) /\ IsNone(detected.education_level)
        ELSE /\ detected.grade.t = "int"
             /\ detected.grade.v = DigitsValue(DigitRun(FromFirstDigit(txt_path)))
             /\ detected.education_level.t = "str"
             /\ detected.education_level.v =
                   ExpectedLevel(DigitsValue(DigitRun(FromFirstDigit(txt_path))))

(* what the strict pass returns for the text at hand *)
StrictSpans ==
    IF Enhanced THEN EnhancedSplitIntoLessons(full_text) ELSE SplitIntoLessons(full_text)
(* the strict pass has run *)
AfterSegmentation ==
    origin # "none" /\ pc \in {"segmented", "chunking", "returned", "indexed"}
ContentsOf(chunks) == [k \in 1..Len(chunks) |-> chunks[k].content]
(* the contents of the chunks of the spans, span after span *)
ChunkedInOrder(spans) ==
    Concat([l \in 1..Len(spans) |-> ContentsOf(ChunksOf(spans[l].text).chunks)])

(* C20: the fallback pass has run only if the strict pass returned no span;
   the whole document is the single span only if the fallback pass returned
   none either; and when the strict pass returns spans, they are the lessons
   and the chunks of a returned call are their chunks, span after span. *)
C20_SegmentationStateMachine ==
    AfterSegmentation =>
        /\ origin \in {"fallback", "whole"} => ~Enhanced /\ StrictSpans = <<>>
        /\ origin = "whole" =>
              /\ SplitIntoLessonsFallback(full_text) = <<>>
              /\ lessons = <<Lesson(full_text, 0, TextLen(full_text), 0)>>
        /\ origin = "fallback" => lessons = SplitIntoLessonsFallback(full_text)
        /\ StrictSpans # <<>> =>
              /\ origin = "strict"
              /\ lessons = StrictSpans
              /\ pc \in {"returned", "indexed"} =>
                    ContentsOf(all_chunks) = ChunkedInOrder(StrictSpans)
(* the strict pass found nothing, the fallback pass nothing either, and the
   whole document was chunked *)
C20_Witness ==
    /\ pc = "returned" /\ origin = "whole"
    /\ StrictSpans = <<>>
    /\ all_chunks # <<>>
(***************************************************************************)
(* Properties of the resolver of _find_lesson_markers.                     *)
(***************************************************************************)
Resolved == pc \in {"resolved", "found"}
IsToc(marker) == marker.pattern = "table_of_contents"
(* the candidates that have the key of marker and are not of the
   table-of-contents form *)
NonTocOfKey(marker) ==
    {candidates[c] : c \in {d \in 1..Len(candidates) :
                               /\ KeyOf(candidates[d]) = KeyOf(marker)
                               /\ ~IsToc(candidates[d])}}

(* C21: for every key, the resolver selects a table-of-contents candidate only
   if every candidate with the key is of the table-of-contents form; when one
   candidate of another form has the key, the selected marker is not of the
   table-of-contents form, in whatever order the candidates are presented. *)
C21_TocOnlyWhenNothingElse ==
    Resolved => \A q \in 1..Len(markers) :
                    NonTocOfKey(markers[q]) # {} => ~IsToc(markers[q])

(* C21 witness: the candidates were presented in some order, one key had a
   table-of-contents candidate and a candidate of another form, and the
   selected marker is the other one *)
C21_Witness ==
    /\ pc = "resolved"
    /\ \E q \in 1..Len(markers) :
          /\ ~IsToc(markers[q])
          /\ \E c \in 1..Len(candidates) :
                 KeyOf(candidates[c]) = KeyOf(markers[q]) /\ IsToc(candidates[c])

(* C22: for every key that has a candidate not of the table-of-contents form,
   the title of the selected marker is at least as long as the title of every
   such candidate with the key. *)
C22_LongestNonTocTitle ==
    Resolved => \A q \in 1..Len(markers) :
                    \A c \in NonTocOfKey(markers[q]) :
                        TextLen(markers[q].title) >= TextLen(c.title)

(* C22 witness: one key had candidates of other forms than the table of
   contents with titles of different lengths *)
C22_Witness ==
    /\ pc = "resolved"
    /\ \E q \in 1..Len(markers) :
          \E c \in NonTocOfKey(markers[q]) :
              TextLen(markers[q].title) > TextLen(c.title)

MixedOrBulleted == {"mixed_case_dot", "bullet_point"}
UppercaseOrPlain ==
    {"uppercase_dot", "uppercase_colon", "standalone_uppercase", "plain_text_dot",
     "no_punctuation"}
(* the candidates of the key of marker, not of the table-of-contents form,
   that have the longest title among them *)
LongestOfKey(marker) ==
    {c \in NonTocOfKey(marker) :
        \A o \in NonTocOfKey(marker) : TextLen(o.title) <= TextLen(c.title)}

(* C23: when several candidates of one key, not of the table-of-contents form,
   tie for the longest title and one of them is mixed-case or bulleted, the
   marker the loop selects, running over the candidates in the order of the
   pattern loops, is mixed-case or bulleted and not uppercase or plain. *)
C23_TieGoesToMixedCase ==
    pc = "found" =>
        \A q \in 1..Len(markers) :
            (/\ Cardinality(LongestOfKey(markers[q])) >= 2
             /\ \E c \in LongestOfKey(markers[q]) : c.pattern \in MixedOrBulleted)
            => /\ markers[q].pattern \in MixedOrBulleted
               /\ markers[q].pattern \notin UppercaseOrPlain

(* C23 witness: a mixed-case candidate tied with uppercase, standalone and
   plain-text candidates of the same key and was selected *)
C23_Witness ==
    /\ pc = "found"
    /\ \E q \in 1..Len(markers) :
          /\ markers[q].pattern \in MixedOrBulleted
          /\ {"uppercase_dot", "standalone_uppercase", "plain_text_dot"}
                \subseteq {c.pattern : c \in LongestOfKey(markers[q])}

(***************************************************************************)
(* Properties of DocumentProcessor._split_into_lessons.                    *)
(***************************************************************************)
StrictlySegmented == pc = "segmented" /\ origin = "strict" /\ ~Enhanced
(* the span of marker i passes the three filters *)
PassesFilters(i) ==
    /\ TextLen(LessonContent(full_text, markers, i)) >= 50
    /\ ~IsExerciseSection(LessonContent(full_text, markers, i))
    /\ BaiCount(LessonContent(full_text, markers, i)) <= 3
(* the span of marker i is a lesson of the output *)
Emitted(i) ==
    \E q \in 1..Len(lessons) :
        /\ lessons[q].start = markers[i].position
        /\ lessons[q].end = EndPos(full_text, markers, i)

(* C24: in strict segmentation the span of a marker is rejected exactly when
   it is shorter than 50 characters, or matches the exercises-only heading, or
   holds more than 3 occurrences of the lesson pattern; every span that passes
   the three filters is a lesson span of the output. *)
C24_ThreeFiltersDecide ==
    StrictlySegmented => \A i \in 1..Len(markers) : Emitted(i) <=> PassesFilters(i)

(***************************************************************************)
(* Properties of the chunking of EnhancedDocumentProcessor.                *)
(***************************************************************************)
SmartMode == Enhanced /\ processor.smart_chunking
InLoop == pc \in {"chunking", "returned", "indexed"}
(* the characters of a text that are not whitespace, in order *)
NonWhitespace(t) == SelectSeq(t, LAMBDA a : ~IsWs(a))
(* the texts of the pieces, one after the other *)
PiecesOf(lesson_text) ==
    Concat([q \in 1..Len(SplitBySemanticBoundaries(lesson_text)) |->
               SplitBySemanticBoundaries(lesson_text)[q].text])

(* C25: the pieces _split_by_semantic_boundaries returns for a lesson span are
   in document order, do not overlap and cover the span with no gap: read one
   after the other they hold every non-whitespace character of the span
   exactly once, in the order of the span. *)
C25_PiecesCoverTheSpan ==
    (SmartMode /\ InLoop)
        => \A q \in 1..lesson_idx :
               NonWhitespace(PiecesOf(lessons[q].text)) = NonWhitespace(lessons[q].text)

(* the chunks of the lesson with index l, in the order of all_chunks *)
LessonChunks(l) == SelectSeq(all_chunks, LAMBDA c : c.lesson_index = l)
Last100(content) == Slice(content, Max(TextLen(content) - 100, 0), TextLen(content))
First100(content) == Slice(content, 0, Min(100, TextLen(content)))
(* chunk q of chunks, counted from 1, has the previews and the position *)
HasWindow(chunks, q, md) ==
    /\ ("prev_chunk_preview" \in DOMAIN md) <=> (q > 1)
    /\ q > 1 => md["prev_chunk_preview"].v = Last100(chunks[q - 1].content)
    /\ ("next_chunk_preview" \in DOMAIN md) <=> (q < Len(chunks))
    /\ q < Len(chunks) => md["next_chunk_preview"].v = First100(chunks[q + 1].content)
    /\ "chunk_position" \in DOMAIN md
    /\ md["chunk_position"].v.index = q - 1
    /\ md["chunk_position"].v.total = Len(chunks)
(* relative_position, in hundredths, is i / (n - 1), and 0 when n = 1 *)
HasExactPosition(chunks, q, md) ==
    md["chunk_position"].v.relative_position * Max(Len(chunks) - 1, 1) = 100 * (q - 1)

(* relative_position, in hundredths, is the hundredth nearest to i / (n - 1),
   and 0 when n = 1 *)
HasRoundedPosition(chunks, q, md) ==
    \E h \in {md["chunk_position"].v.relative_position} :
        /\ 2 * (h * Max(Len(chunks) - 1, 1) - 100 * (q - 1)) <= Max(Len(chunks) - 1, 1)
        /\ 2 * (100 * (q - 1) - h * Max(Len(chunks) - 1, 1)) <= Max(Len(chunks) - 1, 1)

(* C26 as stated: in the ordered chunks of one lesson, n in number, chunk i
   has a prev preview, the last 100 characters of chunk i-1 of that lesson,
   if and only if i > 0; a next preview, the first 100 characters of chunk
   i+1 of that lesson, if and only if i < n-1; and the position index i,
   total n and relative position i/(n-1), 0 when n = 1. *)
C26_ExactRelativePosition ==
    (Enhanced /\ InLoop)
        => \A l \in 0..(lesson_idx - 1) :
               \A q \in 1..Len(LessonChunks(l)) :
                   /\ HasWindow(LessonChunks(l), q, LessonChunks(l)[q].metadata)
                   /\ HasExactPosition(LessonChunks(l), q, LessonChunks(l)[q].metadata)

(* C26, amended: the same previews, index and total, and the relative
   position is i/(n-1) rounded to two decimals (0 when n = 1); the previews
   of a chunk are cut from the chunks of its own lesson. *)
C26_ContextWindowPerLesson ==
    (Enhanced /\ InLoop)
        => \A l \in 0..(lesson_idx - 1) :
               \A q \in 1..Len(LessonChunks(l)) :
                   /\ HasWindow(LessonChunks(l), q, LessonChunks(l)[q].metadata)
                   /\ HasRoundedPosition(LessonChunks(l), q, LessonChunks(l)[q].metadata)

(* C26 witness: a call returned the chunks of two lessons, one of them cut
   into four chunks or more with a relative position that is not a whole
   number of hundredths before rounding *)
C26_Witness ==
    /\ Enhanced /\ pc = "returned" /\ Len(lessons) >= 2
    /\ \A l \in 0..(Len(lessons) - 1) : LessonChunks(l) # <<>>
    /\ \E l \in 0..(Len(lessons) - 1) :
          /\ Len(LessonChunks(l)) >= 4
          /\ \E q \in 1..Len(LessonChunks(l)) :
                 ~HasExactPosition(LessonChunks(l), q, LessonChunks(l)[q].metadata)

(* the lessons of the output cut at marker i *)
LessonsOf(i) ==
    {lessons[q] : q \in {r \in 1..Len(lessons) :
                             lessons[r].start = markers[i].position}}

(* C27: strict segmentation does not discard the body of a lesson whose span
   starts with its own lesson heading: the strip of the leading remnant leaves
   the span as it is, so a span of 100 characters or more that passes the
   filters is emitted, and the emitted text is the span, from its heading on,
   also when a later structural heading stands inside the span. *)
C27_StripKeepsLessonBody ==
    StrictlySegmented
        => \A i \in 1..Len(markers) :
               /\ \A lesson \in LessonsOf(i) :
                      lesson.text = LessonContent(full_text, markers, i)
               /\ (PassesFilters(i)
                    /\ TextLen(LessonContent(full_text, markers, i)) >= 100)
                   => Emitted(i)

(***************************************************************************)
(* Properties of the metadata of a lesson.                                 *)
(***************************************************************************)
(* the lesson span chunk k was cut from *)
LessonOfChunk(k) == lessons[all_chunks[k].lesson_index + 1]
(* the metadata has the lesson number n *)
HasLessonNumber(md, n) ==
    /\ "lesson_number" \in DOMAIN md
    /\ md["lesson_number"].t = "int"
    /\ md["lesson_number"].v = n
(* the metadata has the chapter that chapter_map records for lesson n *)
HasChapterOf(md, n) ==
    n \in DOMAIN chapter_map
        => /\ "chapter_number" \in DOMAIN md
           /\ md["chapter_number"].t = "int"
           /\ md["chapter_number"].v = chapter_map[n].chapter_number

(* C28: for every lesson span that segmentation emitted from a marker, the
   lesson_number in the metadata of its chunks is the number of the marker
   that opened the span, and the chapter of the chunks is the one chapter_map
   records for that number. *)
C28_LessonNumberOfOpeningMarker ==
    (~Enhanced /\ InLoop)
        => \A k \in 1..Len(all_chunks) :
               LessonOfChunk(k).number # 0
                   => /\ HasLessonNumber(all_chunks[k].metadata, LessonOfChunk(k).number)
                      /\ HasChapterOf(all_chunks[k].metadata, LessonOfChunk(k).number)


(***************************************************************************)
(* Properties of _build_chapter_map                                        *)
(***************************************************************************)
(* the index in items of the last lesson item numbered n *)
LastOccurrence(items, n) ==
    SetMax({j \in 1..Len(items) : items[j].type = "LESSON" /\ items[j].number = n})
(* the chapter map holds for n what was computed for the lesson item i:
   the chapter nearest_chapter found, or no entry when it found none *)
EntryIsAssignmentOf(items, i, n) ==
    IF NearestChapter(items, i, Enhanced) = 0 THEN n \notin DOMAIN chapter_map
    ELSE /\ n \in DOMAIN chapter_map
         /\ chapter_map[n].at = items[NearestChapter(items, i, Enhanced)].position
         /\ chapter_map[n].chapter_number =
                items[NearestChapter(items, i, Enhanced)].number
SeveralPositions(items, n) == Cardinality(LessonPositions(items, n)) >= 2
HasChapterItem(items) == \E j \in 1..Len(items) : items[j].type = "CHAPTER"

(* C29: when a lesson number is matched at several positions of the text and
   the text has a chapter marker, the chapter map holds for that number the
   assignment computed for the occurrence with the largest position. *)
C29_LastOccurrenceWins ==
    (Mapped /\ full_text # <<>> /\ HasChapterItem(Items(full_text, Enhanced))) =>
        \A i \in 1..Len(Items(full_text, Enhanced)) :
            (/\ Items(full_text, Enhanced)[i].type = "LESSON"
             /\ SeveralPositions(Items(full_text, Enhanced),
                                 Items(full_text, Enhanced)[i].number))
            => EntryIsAssignmentOf(Items(full_text, Enhanced),
                   LastOccurrence(Items(full_text, Enhanced),
                                  Items(full_text, Enhanced)[i].number),
                   Items(full_text, Enhanced)[i].number)

(* C29 witness: a lesson number matched at two positions whose occurrences
   have different nearest chapters, mapped to the chapter of the later one *)
C29_Witness ==
    /\ pc = "mapped"
    /\ \E i, j \in 1..Len(Items(full_text, Enhanced)) :
          /\ i < j
          /\ Items(full_text, Enhanced)[i].type = "LESSON"
          /\ Items(full_text, Enhanced)[j].type = "LESSON"
          /\ Items(full_text, Enhanced)[i].number = Items(full_text, Enhanced)[j].number
          /\ Items(full_text, Enhanced)[i].position < Items(full_text, Enhanced)[j].position
          /\ NearestChapter(Items(full_text, Enhanced), i, Enhanced) # 0
          /\ NearestChapter(Items(full_text, Enhanced), j, Enhanced) # 0
          /\ NearestChapter(Items(full_text, Enhanced), i, Enhanced)
                # NearestChapter(Items(full_text, Enhanced), j, Enhanced)
          /\ j = LastOccurrence(Items(full_text, Enhanced),
                                Items(full_text, Enhanced)[j].number)
          /\ chapter_map[Items(full_text, Enhanced)[j].number].at =
                Items(full_text, Enhanced)[
                    NearestChapter(Items(full_text, Enhanced), j, Enhanced)].position


(***************************************************************************)
(* Properties of the configuration of the splitters                        *)
(***************************************************************************)
(* the configurations _basic_chunk accepts *)
BasicModeAccepts == /\ 0 <= processor.chunk_overlap
                    /\ processor.chunk_overlap <= processor.chunk_size
(* the lesson the loop is about to chunk has a piece _split_large_section
   is called on *)
HasOversizedPiece(lesson_text) ==
    \E q \in 1..Len(SplitBySemanticBoundaries(lesson_text)) :
        CountTokens(SplitBySemanticBoundaries(lesson_text)[q].text)
            > processor.chunk_size

(* C30: under a configuration with 0 <= chunk_overlap <= chunk_size, the
   overlap semantic mode passes to the splitter of an oversized piece,
   2 * chunk_overlap, is at most chunk_size, and chunking the lesson in
   semantic mode does not raise. *)
C30_DoubledOverlapWithinSize ==
    (/\ pc = "chunking" /\ lesson_idx < Len(lessons)
     /\ SmartMode /\ BasicModeAccepts
     /\ HasOversizedPiece(lessons[lesson_idx + 1].text))
    => /\ 2 * processor.chunk_overlap <= processor.chunk_size
       /\ ~ChunksOf(lessons[lesson_idx + 1].text).raised
       /\ ~BasicChunk(lessons[lesson_idx + 1].text, processor.chunk_size,
                      processor.chunk_overlap, "tokens").raised

====
